---- MODULE Spec2Model ----
(***************************************************************************)
(* Model of netbox-csv-import: the per-record import pipeline              *)
(* (access_point -> NetboxBaseDevice.netbox_import) and the process        *)
(* orchestration of import_devices.py (one worker process per CSV row, a   *)
(* shared log queue and a log listener process).                           *)
(***************************************************************************)
EXTENDS Integers, Sequences, FiniteSets, TLC

\* ------------------------------------------------------------------------
\* Bounds of the model
\* ------------------------------------------------------------------------
MaxRows == 2

MaxIfaces == 2

\* ------------------------------------------------------------------------
\* Values held by the device / interface dictionaries.  Python's None, int,
\* str, bool and nested dict values are tagged records so that any two of
\* them can be compared.
\* ------------------------------------------------------------------------
NoneV == [t |-> "none", i |-> 0, s |-> ""]

IntV(n) == [t |-> "int", i |-> n, s |-> ""]

StrV(x) == [t |-> "str", i |-> 0, s |-> x]

BoolV(b) == [t |-> "bool", i |-> IF b THEN 1 ELSE 0, s |-> ""]

DictV(x) == [t |-> "dict", i |-> 0, s |-> x]

\* An identifier is a natural number; 0 stands for None (both are falsy).
IdV(n) == IF n = 0 THEN NoneV ELSE IntV(n)

\* ------------------------------------------------------------------------
\* Key fields of the wireless access point device and its interfaces
\* ------------------------------------------------------------------------
device_key_fields == {"id", "name", "serial", "asset_tag", "status", "custom_fields"}

interface_key_fields ==
    {"id", "name", "mac_address", "enabled", "rf_role", "tx_power", "rf_channel",
     "custom_fields", "rf_channel_frequency", "rf_channel_width"}

\* generate_api_dict: a key field keeps its value, any other field is
\* wrapped as {"slug": value}.
generate_api_dict_MutRawNone(dict_data, key_fields) ==
    [k \in DOMAIN dict_data |->
        IF k \in key_fields \/ dict_data[k] = NoneV
        THEN dict_data[k]
        ELSE [slug |-> dict_data[k]]]

generate_api_dict(dict_data, key_fields) ==
    [k \in DOMAIN dict_data |->
        IF k \in key_fields THEN dict_data[k] ELSE [slug |-> dict_data[k]]]

\* ------------------------------------------------------------------------
\* Input rows.  A row carries the device name, the number of interfaces its
\* columns name, whether it has a wlc_primary_association value (a custom
\* field resolved by get_device_id) and whether an interface column
\* <prefix>_wlc_rf_channel is filled in.
\* ------------------------------------------------------------------------
Names == {"ap1", "ap2"}

WlcName == "wlc1"

InterfaceNames == <<"wired", "radio0", "radio1", "radio2">>

Row(n, k, w, r) == [name |-> n, nif |-> k, wlc |-> w, rfcf |-> r]

RowSet ==
    { Row(n, k, w, r) : n \in Names, k \in 0..MaxIfaces, w \in BOOLEAN, r \in BOOLEAN }
        \ { Row(n, 0, w, TRUE) : n \in Names, w \in BOOLEAN }

\* The dict returned by validate_device_dict (NetboxWirelessApDeviceModel.dict()).
ValidDevice(row, cf) ==
    [id            |-> NoneV,
     name          |-> StrV(row.name),
     serial        |-> StrV("serial"),
     asset_tag     |-> NoneV,
     device_role   |-> StrV("role"),
     manufacturer  |-> NoneV,
     device_type   |-> StrV("type"),
     region        |-> NoneV,
     site          |-> StrV("site"),
     location      |-> NoneV,
     status        |-> StrV("active"),
     platform      |-> NoneV,
     custom_fields |-> cf]

\* The dict of one validated interface: NetboxBaseInterfaceModel for "wired",
\* NetboxWirelessApInterfaceModel for "radio<N>".
ValidInterface(ifname) ==
    IF ifname = "wired"
    THEN [id |-> NoneV, name |-> StrV(ifname), mac_address |-> StrV("mac"),
          enabled |-> BoolV(TRUE)]
    ELSE [id |-> NoneV, name |-> StrV(ifname), mac_address |-> StrV("mac"),
          enabled |-> BoolV(TRUE), rf_role |-> StrV("ap"), tx_power |-> NoneV,
          rf_channel_frequency |-> NoneV, rf_channel_width |-> IntV(20),
          rf_channel |-> StrV("5g-36-5180-20"), custom_fields |-> DictV("rf")]

\* validate_interface_dict keeps the interfaces in the order of the mapping.
ValidInterfaces(row) == [k \in 1..row.nif |-> ValidInterface(InterfaceNames[k])]

\* ------------------------------------------------------------------------
\* State
\* ------------------------------------------------------------------------
VARIABLES
    update_mode,          \* --no-update switch (script_args.update_mode)
    csv,                  \* the rows of the CSV file, in file order
    remote,               \* remote inventory: device name -> id (0 = absent)
    remote_device,        \* remote inventory: device name -> fields last written
    next_id,              \* next identifier the remote inventory assigns
    main_pc,              \* position of the main script
    vault_result,         \* how get_vault_secret and the key lookups ended
    worker_process_list,  \* workers started by process_csv, in start order
    join_index,           \* number of workers process_csv has joined
    wpc,                  \* position of each worker process
    device_custom_fields, \* device custom fields built by the enrichment
    self_id,              \* NetboxBaseDevice.id (0 = None)
    self_dict,            \* NetboxBaseDevice._dict
    interfaces,           \* InterfaceContainer: sequence of [id, dict]
    iter_index,           \* InterfaceContainer._iter_index
    calls,                \* remote calls issued by each worker, in order
    emitted,              \* log records each worker handed to its logger
    outcome,              \* how each worker's pipeline ended
    queue,                \* the multiprocessing log queue
    rendered,             \* records the listener's handler wrote out
    listener_pc,          \* position of the log listener process
    listener_problems,    \* "Problem with root logger" reports on stderr
    handlers_may_raise    \* whether handling a record can raise in this run

\* State of the helper functions studied on their own: the arguments and the
\* result of one call.
VARIABLES
    fn_pc,                \* "idle", or position of the call: "call" / "return"
    csv_row,              \* generate_import_dicts: the row, as (header, value) items
    device_dict,          \* generate_import_dicts: first element of the result
    interface_dict,       \* generate_import_dicts: second element of the result
    api_input,            \* generate_api_dict: the dict_data argument
    api_key_fields,       \* generate_api_dict: the key_fields argument
    api_dict,             \* generate_api_dict: the result
    interface_data,       \* radio interface model: the dict handed to the model
    values,               \* radio interface model: the dict the validators work on
    raised,               \* exception that left the function ("none": it returned)
    dict_data,            \* generate_custom_fields: the dict_data argument
    dict_data_passed,     \* generate_custom_fields: dict_data as it was passed
    custom_field_map,     \* generate_custom_fields: (field name, generator) items
    netbox_devices,       \* generate_custom_fields: device name -> id in NetBox
    netbox_reply,         \* generate_custom_fields: how NetBox answers a request
    custom_fields,        \* generate_custom_fields: the result
    unvalidated_device,   \* validate_device_dict: the device_dict argument
    unvalidated_interfaces, \* validate_interface_dict: items of interface_dict
    validator_class,      \* validate_interface_dict: the validator_class argument
    interface_validation_map, \* validate_interface_dict: items of the map argument
    validate_data_calls,  \* validate_data: the calls made, in order
    validated_interface_data, \* validate_interface_dict: the result
    error_identifier      \* the interface named by the raised validation error

import_dicts_vars == <<csv_row, device_dict, interface_dict>>

api_dict_vars == <<api_input, api_key_fields, api_dict>>

model_vars == <<interface_data, values, raised>>

custom_fields_vars ==
    <<dict_data, dict_data_passed, custom_field_map, netbox_devices, netbox_reply,
      custom_fields>>

validate_vars ==
    <<unvalidated_device, unvalidated_interfaces, validator_class,
      interface_validation_map, validate_data_calls, validated_interface_data,
      error_identifier>>

fn_vars ==
    <<fn_pc, import_dicts_vars, api_dict_vars, model_vars, custom_fields_vars,
      validate_vars>>

vars ==
    <<fn_vars, update_mode, csv, remote, remote_device, next_id, main_pc, vault_result,
      worker_process_list, join_index, wpc, device_custom_fields, self_id, self_dict, interfaces, iter_index, calls,
      emitted, outcome, queue, rendered, listener_pc, listener_problems,
      handlers_may_raise>>

main_vars == <<main_pc, vault_result, worker_process_list, join_index>>

listener_vars == <<rendered, listener_pc, listener_problems, handlers_may_raise>>

object_vars == <<device_custom_fields, self_id, self_dict, interfaces, iter_index>>

Workers == 1..MaxRows

\* ------------------------------------------------------------------------
\* Remote calls and log records
\* ------------------------------------------------------------------------
Call(op, name, iface, res, id, payload) ==
    [op |-> op, name |-> name, iface |-> iface, res |-> res, id |-> id,
     payload |-> payload]

LogRecord(w, level, msg, device) ==
    [worker |-> w, level |-> level, msg |-> msg, device |-> device]

\* The marker the main script puts on the queue to stop the listener.
Marker == [worker |-> 0, level |-> "NONE", msg |-> "None", device |-> ""]

\* The identifier the remote inventory gave the k-th templated interface of
\* the device with identifier d.
InterfaceId(d, k) == d * 10 + k

\* ------------------------------------------------------------------------
\* NetboxBaseDevice
\* ------------------------------------------------------------------------
\* _set_id: a truthy device_id is taken as is, otherwise the device is looked
\* up by name (looked_up is what get_device_id returns for it).
SetIdMutAlwaysLookup(device_id, looked_up) == [id |-> looked_up, lookup |-> TRUE]

SetId(device_id, looked_up) ==
    IF device_id # 0
    THEN [id |-> device_id, lookup |-> FALSE]
    ELSE [id |-> looked_up, lookup |-> TRUE]

\* The branch netbox_import takes.
ImportBranchMutNoSkip(id, mode) == IF id # 0 THEN "update" ELSE "create"

ImportBranchMutCreateLocked(id, mode) == IF id # 0 /\ mode THEN "update" ELSE "create"

ImportBranch(id, mode) ==
    IF id # 0 /\ mode THEN "update"
    ELSE IF id # 0 /\ ~mode THEN "skip"
    ELSE "create"

\* _create_device / _update_device: the exception that leaves the method for
\* each result of the remote call ("none": the method returns).
DeviceCallExceptionMutSwallow(res) ==
    IF res = "conn" THEN "RequestsConnectionError" ELSE "none"

DeviceCallException(res) ==
    CASE res = "rejected" -> "NetboxDeviceImportError"
      [] res = "conn"     -> "RequestsConnectionError"
      [] OTHER            -> "none"

\* dcim.devices.create / dcim.devices.update: the fields the remote inventory
\* holds for the device after a call it accepted are those of the payload.
DevicesUpdateMutFirstWins(device, payload) ==
    IF device = <<>> THEN payload ELSE device

DevicesUpdate(device, payload) == payload

\* Netbox.get_interface_id: the exception raised for each result of the
\* interface lookup.
GetInterfaceIdException(res) ==
    CASE res = "rejected" -> "NetboxImportError"
      [] res = "conn"     -> "RequestsConnectionError"
      [] OTHER            -> "none"

\* _update_interfaces: a request error and a TypeError both become
\* NetboxInterfaceImportError.
UpdateInterfacesException_MutTypeErrorEscapes(res) ==
    CASE res = "rejected" -> "NetboxInterfaceImportError"
      [] res = "type"     -> "TypeError"
      [] res = "conn"     -> "RequestsConnectionError"
      [] OTHER            -> "none"

UpdateInterfacesException(res) ==
    CASE res = "rejected" -> "NetboxInterfaceImportError"
      [] res = "type"     -> "NetboxInterfaceImportError"
      [] res = "conn"     -> "RequestsConnectionError"
      [] OTHER            -> "none"

\* InterfaceContainer.netbox_api_payload: one payload per interface, in the
\* order of _names.
InterfacesPayloadMutDropLast(ifs) ==
    [k \in 1..(IF Len(ifs) > 1 THEN Len(ifs) - 1 ELSE Len(ifs)) |->
        generate_api_dict(ifs[k].dict, interface_key_fields)]

InterfacesPayload(ifs) ==
    [k \in 1..Len(ifs) |-> generate_api_dict(ifs[k].dict, interface_key_fields)]

\* NetboxBaseDevice.netbox_api_payload
DevicePayload(d) == generate_api_dict(d, device_key_fields)

\* The except clauses of netbox_import: what leaves the method ("none": it
\* returns) and the record it logs itself.
NetboxImportExceptMutSuccessOnSkip(w, name, exc) ==
    CASE exc = "NetboxSkipImport" ->
            [raise |-> "none", log |-> <<LogRecord(w, "INFO", "success", name)>>]
      [] exc = "NetboxDeviceImportError" ->
            [raise |-> "NetboxDeviceImportError", log |-> <<>>]
      [] exc = "NetboxInterfaceImportError" ->
            [raise |-> "NetboxInterfaceImportError", log |-> <<>>]
      [] exc = "none" ->
            [raise |-> "none", log |-> <<LogRecord(w, "INFO", "success", name)>>]
      [] OTHER ->
            [raise |-> exc, log |-> <<>>]

NetboxImportExceptMutWrongClass(w, name, exc) ==
    CASE exc = "NetboxSkipImport" ->
            [raise |-> "none", log |-> <<LogRecord(w, "INFO", "skipping", name)>>]
      [] exc = "NetboxDeviceImportError" ->
            [raise |-> "NetboxInterfaceImportError", log |-> <<>>]
      [] exc = "none" ->
            [raise |-> "none", log |-> <<LogRecord(w, "INFO", "success", name)>>]
      [] OTHER ->
            [raise |-> exc, log |-> <<>>]

NetboxImportExcept(w, name, exc) ==
    CASE exc = "NetboxSkipImport" ->
            [raise |-> "none", log |-> <<LogRecord(w, "INFO", "skipping", name)>>]
      [] exc = "NetboxDeviceImportError" ->
            [raise |-> "NetboxDeviceImportError", log |-> <<>>]
      [] exc = "NetboxInterfaceImportError" ->
            [raise |-> "NetboxInterfaceImportError", log |-> <<>>]
      [] exc = "none" ->
            [raise |-> "none", log |-> <<LogRecord(w, "INFO", "success", name)>>]
      [] OTHER ->
            [raise |-> exc, log |-> <<>>]

\* ------------------------------------------------------------------------
\* access_point: the except clauses of the worker function.  The records it
\* logs for an exception, and the way the record's pipeline ended.
\* ------------------------------------------------------------------------
AccessPointExcept(w, name, exc) ==
    CASE exc = "NetboxDeviceDataValidationError" ->
            <<LogRecord(w, "ERROR", "device_validation", name)>>
      [] exc = "NetboxInterfaceDataValidationError" ->
            <<LogRecord(w, "ERROR", "interface_validation", name)>>
      [] exc = "NetboxDeviceImportError" ->
            <<LogRecord(w, "ERROR", "device_not_imported", name)>>
      [] exc = "NetboxInterfaceImportError" ->
            <<LogRecord(w, "ERROR", "interfaces_not_configured", name)>>
      [] exc = "RequestsConnectionError" ->
            <<LogRecord(w, "ERROR", "unable_to_connect_url", ""),
              LogRecord(w, "DEBUG", "error_details", "")>>
      [] exc = "NetboxRequestError" ->
            <<LogRecord(w, "ERROR", "unable_to_connect_token", ""),
              LogRecord(w, "DEBUG", "error_details", "")>>
      [] exc = "AttributeError" ->
            <<LogRecord(w, "ERROR", "invalid_csv_row", ""),
              LogRecord(w, "DEBUG", "error_details", "")>>
      [] exc = "OSError" ->
            <<LogRecord(w, "ERROR", "os_error", "")>>
      [] OTHER -> <<>>

Caught ==
    {"NetboxDeviceDataValidationError", "NetboxInterfaceDataValidationError",
     "NetboxDeviceImportError", "NetboxInterfaceImportError",
     "RequestsConnectionError", "NetboxRequestError", "AttributeError", "OSError"}

OutcomeOf(exc) ==
    CASE exc = "NetboxDeviceDataValidationError"    -> "FailedDeviceValidation"
      [] exc = "NetboxInterfaceDataValidationError" -> "FailedInterfaceValidation"
      [] exc = "NetboxDeviceImportError"            -> "FailedDevice"
      [] exc = "NetboxInterfaceImportError"         -> "FailedInterface"
      [] exc \in Caught                             -> "FailedConnection"
      [] OTHER                                      -> "Crashed"

\* The worker function returns (or dies on an uncaught exception): its
\* records go to the queue and the process ends.
Finish(w, result, records) ==
    /\ wpc' = [wpc EXCEPT ![w] = "done"]
    /\ outcome' = [outcome EXCEPT ![w] = result]
    /\ emitted' = [emitted EXCEPT ![w] = @ \o records]
    /\ queue' = queue \o records

\* An exception reaches the except clauses of access_point.
Raise(w, exc) == Finish(w, OutcomeOf(exc), AccessPointExcept(w, csv[w].name, exc))

\* An exception is raised inside the try block of netbox_import.
RaiseInImport(w, exc) ==
    LET h == NetboxImportExcept(w, csv[w].name, exc)
    IN  IF h.raise = "none"
        THEN Finish(w, "Skipped", h.log)
        ELSE Raise(w, h.raise)

\* ------------------------------------------------------------------------
\* The worker process: access_point on one row
\* ------------------------------------------------------------------------
HasCall(w, op) == \E i \in 1..Len(calls[w]) : calls[w][i].op = op

\* generate_custom_fields for the device, then for every interface.  A
\* wlc_*_association value is resolved with get_device_id; an interface
\* value for wlc_rf_channel reaches hasattr(netbox, None), a TypeError.
GenerateCustomFields(w) ==
    /\ wpc[w] = "enrich"
    /\ \E res \in (IF csv[w].wlc THEN {"found", "absent", "conn", "rejected"} ELSE {"unused"}) :
        LET exc == CASE res = "conn"     -> "RequestsConnectionError"
                     [] res = "rejected" -> "NetboxRequestError"
                     [] csv[w].rfcf      -> "TypeError"
                     [] OTHER            -> "none"
        IN  /\ calls' = [calls EXCEPT ![w] =
                    IF csv[w].wlc
                    THEN Append(@, Call("lookup_device", WlcName, "", res, 0, <<>>))
                    ELSE @]
            /\ IF exc = "none"
               THEN /\ wpc' = [wpc EXCEPT ![w] = "validate"]
                    /\ device_custom_fields' = [device_custom_fields EXCEPT ![w] =
                            DictV(IF res = "found" THEN "wlc:id"
                                  ELSE IF res = "absent" THEN "wlc:None" ELSE "")]
                    /\ UNCHANGED <<outcome, emitted, queue>>
               ELSE /\ Raise(w, exc)
                    /\ UNCHANGED device_custom_fields
    /\ UNCHANGED <<fn_vars, update_mode, csv, remote, remote_device, next_id, main_vars, listener_vars,
                   self_id, self_dict, interfaces, iter_index>>

\* validate_device_dict, then validate_interface_dict.  The verdict of the
\* pydantic models is an input: the device fails, an interface fails, a pre
\* root validator of a radio interface raises KeyError, or all pass.
ValidateDicts(w) ==
    /\ wpc[w] = "validate"
    /\ \E verdict \in {"ok", "device"}
                      \cup (IF csv[w].nif > 0 THEN {"interface"} ELSE {})
                      \cup (IF csv[w].nif > 1 THEN {"KeyError"} ELSE {}) :
        IF verdict = "ok"
        THEN /\ wpc' = [wpc EXCEPT ![w] = "construct"]
             /\ UNCHANGED <<outcome, emitted, queue>>
        ELSE Raise(w, CASE verdict = "device"    -> "NetboxDeviceDataValidationError"
                        [] verdict = "interface" -> "NetboxInterfaceDataValidationError"
                        [] OTHER                 -> "KeyError")
    /\ UNCHANGED <<fn_vars, update_mode, csv, remote, remote_device, next_id, main_vars, listener_vars,
                   object_vars, calls>>

\* NetboxWirelessAp(...): __init__ stores the device dict, _set_id() looks the
\* device up by name, then the InterfaceContainer is built.
ConstructDevice(w) ==
    /\ wpc[w] = "construct"
    /\ \E res \in {"ok", "conn", "rejected"} :
        LET name == csv[w].name
            sid  == SetId(0, remote[name])
            exc  == CASE res = "conn"     -> "RequestsConnectionError"
                      [] res = "rejected" -> "NetboxRequestError"
                      [] OTHER            -> "none"
        IN  /\ calls' = [calls EXCEPT ![w] =
                    Append(@, Call("lookup_device", name, "",
                                   IF res = "ok"
                                   THEN (IF remote[name] # 0 THEN "found" ELSE "absent")
                                   ELSE res,
                                   IF res = "ok" THEN remote[name] ELSE 0, <<>>))]
            /\ IF exc = "none"
               THEN /\ self_id' = [self_id EXCEPT ![w] = sid.id]
                    /\ self_dict' = [self_dict EXCEPT ![w] =
                            [ValidDevice(csv[w], device_custom_fields[w])
                                EXCEPT !["id"] = IdV(sid.id)]]
                    /\ interfaces' = [interfaces EXCEPT ![w] =
                            [k \in 1..csv[w].nif |->
                                [id |-> 0, dict |-> ValidInterfaces(csv[w])[k]]]]
                    /\ wpc' = [wpc EXCEPT ![w] = "import"]
                    /\ UNCHANGED <<outcome, emitted, queue>>
               ELSE /\ Raise(w, exc)
                    /\ UNCHANGED <<self_id, self_dict, interfaces>>
    /\ UNCHANGED <<fn_vars, update_mode, csv, remote, remote_device, next_id, main_vars, listener_vars,
                   device_custom_fields, iter_index>>

\* After the device step netbox_import iterates over the interfaces
\* (update_interface_ids), then calls _update_interfaces.
AfterDeviceStep(w) ==
    /\ wpc' = [wpc EXCEPT ![w] = IF Len(interfaces[w]) > 0 THEN "ifids" ELSE "updif"]
    /\ iter_index' = [iter_index EXCEPT ![w] = 0]
    /\ UNCHANGED <<outcome, emitted, queue>>

\* netbox_import, branch "self.id and self.update_mode": _update_device.
UpdateDevice(w) ==
    /\ wpc[w] = "import"
    /\ ImportBranch(self_id[w], update_mode) = "update"
    /\ \E res \in {"ok", "rejected", "conn"} :
        LET exc == DeviceCallException(res)
        IN  /\ calls' = [calls EXCEPT ![w] =
                    Append(@, Call("update_device", csv[w].name, "", res, 0,
                                   <<DevicePayload(self_dict[w])>>))]
            /\ remote_device' =
                    IF res = "ok"
                    THEN [remote_device EXCEPT ![csv[w].name] =
                            DevicesUpdate(@, DevicePayload(self_dict[w]))]
                    ELSE remote_device
            /\ IF exc = "none"
               THEN AfterDeviceStep(w)
               ELSE RaiseInImport(w, exc) /\ UNCHANGED iter_index
    /\ UNCHANGED <<fn_vars, update_mode, csv, remote, next_id, main_vars, listener_vars,
                   device_custom_fields, self_id, self_dict, interfaces>>

\* netbox_import, branch "self.id and not self.update_mode": NetboxSkipImport.
SkipImport(w) ==
    /\ wpc[w] = "import"
    /\ ImportBranch(self_id[w], update_mode) = "skip"
    /\ RaiseInImport(w, "NetboxSkipImport")
    /\ UNCHANGED <<fn_vars, update_mode, csv, remote, remote_device, next_id, main_vars, listener_vars,
                   object_vars, calls>>

\* netbox_import, else branch: _create_device, then _set_id(nb_result.id).
CreateDevice(w) ==
    /\ wpc[w] = "import"
    /\ ImportBranch(self_id[w], update_mode) = "create"
    /\ \E res \in {"ok", "rejected", "conn"} :
        LET name   == csv[w].name
            exc    == DeviceCallException(res)
            new_id == IF res = "ok" THEN next_id ELSE 0
            stored == IF res = "ok" THEN [remote EXCEPT ![name] = new_id] ELSE remote
            sid    == SetId(new_id, stored[name])
        IN  /\ remote' = stored
            /\ remote_device' =
                    IF res = "ok"
                    THEN [remote_device EXCEPT ![name] =
                            DevicesUpdate(@, DevicePayload(self_dict[w]))]
                    ELSE remote_device
            /\ next_id' = IF res = "ok" THEN next_id + 1 ELSE next_id
            /\ IF exc = "none"
               THEN /\ calls' = [calls EXCEPT ![w] =
                            Append(@, Call("create_device", name, "", res, new_id,
                                           <<DevicePayload(self_dict[w])>>))
                            \o (IF sid.lookup
                                THEN <<Call("lookup_device", name, "",
                                            IF sid.id # 0 THEN "found" ELSE "absent",
                                            sid.id, <<>>)>>
                                ELSE <<>>)]
                    /\ self_id' = [self_id EXCEPT ![w] = sid.id]
                    /\ self_dict' = [self_dict EXCEPT ![w]["id"] = IdV(sid.id)]
                    /\ AfterDeviceStep(w)
               ELSE /\ calls' = [calls EXCEPT ![w] =
                            Append(@, Call("create_device", name, "", res, new_id,
                                           <<DevicePayload(self_dict[w])>>))]
                    /\ RaiseInImport(w, exc)
                    /\ UNCHANGED <<self_id, self_dict, iter_index>>
    /\ UNCHANGED <<fn_vars, update_mode, csv, main_vars, listener_vars,
                   device_custom_fields, interfaces>>

\* update_interface_ids: InterfaceClass.set_id of the next interface of the
\* iteration, through Netbox.get_interface_id.
SetInterfaceId(w) ==
    /\ wpc[w] = "ifids"
    /\ iter_index[w] < Len(interfaces[w])
    /\ \E res \in {"found", "absent", "rejected", "conn"} :
        LET k    == iter_index[w] + 1
            exc  == GetInterfaceIdException(res)
            id   == IF res = "found" THEN InterfaceId(self_id[w], k) ELSE 0
        IN  /\ calls' = [calls EXCEPT ![w] =
                    Append(@, Call("lookup_interface", csv[w].name,
                                   interfaces[w][k].dict["name"].s, res, id, <<>>))]
            /\ IF exc = "none"
               THEN /\ interfaces' = [interfaces EXCEPT ![w][k] =
                            [id |-> id, dict |-> [@.dict EXCEPT !["id"] = IdV(id)]]]
                    /\ iter_index' = [iter_index EXCEPT ![w] = k]
                    /\ wpc' = [wpc EXCEPT ![w] =
                            IF k = Len(interfaces[w]) THEN "updif" ELSE "ifids"]
                    /\ UNCHANGED <<outcome, emitted, queue>>
               ELSE /\ RaiseInImport(w, exc)
                    /\ UNCHANGED <<interfaces, iter_index>>
    /\ UNCHANGED <<fn_vars, update_mode, csv, remote, remote_device, next_id, main_vars, listener_vars,
                   device_custom_fields, self_id, self_dict>>

\* _update_interfaces: one dcim.interfaces.update call with the payloads of
\* all interfaces; on success netbox_import logs the success entry.
UpdateInterfaces(w) ==
    /\ wpc[w] = "updif"
    /\ \E res \in {"ok", "rejected", "type", "conn"} :
        LET exc == UpdateInterfacesException(res)
            h   == NetboxImportExcept(w, csv[w].name, "none")
        IN  /\ calls' = [calls EXCEPT ![w] =
                    Append(@, Call("update_interfaces", csv[w].name, "", res, 0,
                                   InterfacesPayload(interfaces[w])))]
            /\ IF exc = "none"
               THEN Finish(w, IF HasCall(w, "create_device") THEN "Created" ELSE "Updated",
                           h.log)
               ELSE RaiseInImport(w, exc)
    /\ UNCHANGED <<fn_vars, update_mode, csv, remote, remote_device, next_id, main_vars, listener_vars,
                   object_vars>>

WorkerNext(w) ==
    \/ GenerateCustomFields(w)
    \/ ValidateDicts(w)
    \/ ConstructDevice(w)
    \/ UpdateDevice(w)
    \/ SkipImport(w)
    \/ CreateDevice(w)
    \/ SetInterfaceId(w)
    \/ UpdateInterfaces(w)

\* ------------------------------------------------------------------------
\* The main script (__main__ and process_csv)
\* ------------------------------------------------------------------------
worker_vars ==
    <<wpc, device_custom_fields, self_id, self_dict, interfaces, iter_index, calls,
      emitted, outcome>>

\* get_vault_secret and the two key lookups on its result.  A VaultError is
\* logged and the script goes on to its last lines; a KeyError on the secret
\* mapping is not caught and ends the main script.  AfterVaultSecret is the
\* position the script continues from.
AfterVaultSecretMutIgnoreError(res) ==
    IF res = "KeyError" THEN "crashed" ELSE "csv"

AfterVaultSecret(res) ==
    CASE res = "ok"         -> "csv"
      [] res = "VaultError" -> "end"
      [] OTHER              -> "crashed"

GetVaultSecret ==
    /\ main_pc = "vault"
    /\ \E res \in {"ok", "VaultError", "KeyError"} :
        /\ main_pc' = AfterVaultSecret(res)
        /\ vault_result' = res
    /\ UNCHANGED <<fn_vars, update_mode, csv, remote, remote_device, next_id, worker_process_list, join_index,
                   worker_vars, queue, listener_vars>>

\* process_csv, one turn of "for row in reader": the row's worker process is
\* created, started and appended to worker_process_list.  NewProcess is the
\* process object MpProcess(...) returns: a new one each turn, which works on
\* the row of that turn.
NewProcessMutReuseFirst(started) == IF started = <<>> THEN 1 ELSE started[1]

NewProcess(started) == Len(started) + 1

StartWorker ==
    /\ main_pc = "csv"
    /\ Len(worker_process_list) < Len(csv)
    /\ LET w == NewProcess(worker_process_list)
       IN  /\ wpc' = [wpc EXCEPT ![w] = "enrich"]
           /\ worker_process_list' = Append(worker_process_list, w)
    /\ UNCHANGED <<fn_vars, update_mode, csv, remote, remote_device, next_id, main_pc, vault_result, join_index,
                   device_custom_fields, self_id, self_dict, interfaces, iter_index,
                   calls, emitted, outcome, queue, listener_vars>>

\* process_csv: opening the file, reading a row or starting a process raises;
\* the except clauses log the error and process_csv returns without joining.
ProcessCsvRaise ==
    /\ main_pc = "csv"
    /\ main_pc' = "end"
    /\ UNCHANGED <<fn_vars, update_mode, csv, remote, remote_device, next_id, vault_result, worker_process_list,
                   join_index, worker_vars, queue, listener_vars>>

\* process_csv: the reader is exhausted, the join loop begins.
EndOfRows ==
    /\ main_pc = "csv"
    /\ Len(worker_process_list) = Len(csv)
    /\ main_pc' = IF Len(csv) = 0 THEN "end" ELSE "join"
    /\ join_index' = 0
    /\ UNCHANGED <<fn_vars, update_mode, csv, remote, remote_device, next_id, vault_result, worker_process_list,
                   worker_vars, queue, listener_vars>>

\* process_csv, "for worker in worker_process_list: worker.join()".
JoinWorker ==
    /\ main_pc = "join"
    /\ join_index < Len(worker_process_list)
    /\ wpc[worker_process_list[join_index + 1]] = "done"
    /\ join_index' = join_index + 1
    /\ main_pc' = IF join_index + 1 = Len(worker_process_list) THEN "end" ELSE "join"
    /\ UNCHANGED <<fn_vars, update_mode, csv, remote, remote_device, next_id, vault_result, worker_process_list,
                   worker_vars, queue, listener_vars>>

\* queue.put_nowait(None)
PutMarker ==
    /\ main_pc = "end"
    /\ queue' = Append(queue, Marker)
    /\ main_pc' = "join_listener"
    /\ UNCHANGED <<fn_vars, update_mode, csv, remote, remote_device, next_id, vault_result, worker_process_list,
                   join_index, worker_vars, listener_vars>>

\* log_listener.join()
JoinListener ==
    /\ main_pc = "join_listener"
    /\ listener_pc = "stopped"
    /\ main_pc' = "exit"
    /\ UNCHANGED <<fn_vars, update_mode, csv, remote, remote_device, next_id, vault_result, worker_process_list,
                   join_index, worker_vars, queue, listener_vars>>

\* ------------------------------------------------------------------------
\* The log listener process (root_logging_process): one turn of its loop.
\* The root handler has level INFO, so a DEBUG record is handled but not
\* written out.  When handling the record raises, the except clause of the
\* loop prints the problem and the loop goes on.
\* ------------------------------------------------------------------------
Rendered(record) == record.level \in {"INFO", "WARNING", "ERROR", "CRITICAL"}

\* Where the loop is after its except clause.
AfterListenerProblem_MutLeaveLoop == "stopped"

AfterListenerProblem == "running"

RootLoggingProcess ==
    /\ listener_pc = "running"
    /\ queue # <<>>
    /\ queue' = Tail(queue)
    /\ IF Head(queue) = Marker
       THEN /\ listener_pc' = "stopped"
            /\ UNCHANGED <<rendered, listener_problems>>
       ELSE \E handle_raises \in (IF handlers_may_raise THEN BOOLEAN ELSE {FALSE}) :
                IF handle_raises
                THEN /\ listener_problems' = listener_problems + 1
                     /\ listener_pc' = AfterListenerProblem
                     /\ UNCHANGED rendered
                ELSE /\ rendered' = IF Rendered(Head(queue))
                                    THEN Append(rendered, Head(queue)) ELSE rendered
                     /\ UNCHANGED <<listener_pc, listener_problems>>
    /\ UNCHANGED <<fn_vars, update_mode, csv, remote, remote_device, next_id, main_vars,
                   worker_vars, handlers_may_raise>>

\* ------------------------------------------------------------------------
\* Specifications
\* ------------------------------------------------------------------------
\* Identifiers of the devices the remote inventory may hold at the start.
ExistingId(n) == IF n = "ap1" THEN 1 ELSE 2

FirstFreeId == Cardinality(Names) + 1

\* No helper function is being studied.
ImportDictsIdle ==
    /\ csv_row = <<>>
    /\ device_dict = <<>>
    /\ interface_dict = <<>>

ApiDictIdle ==
    /\ api_input = <<>>
    /\ api_key_fields = {}
    /\ api_dict = <<>>

ModelIdle ==
    /\ interface_data = <<>>
    /\ values = <<>>
    /\ raised = "none"

CustomFieldsIdle ==
    /\ dict_data = <<>>
    /\ dict_data_passed = <<>>
    /\ custom_field_map = <<>>
    /\ netbox_devices = <<>>
    /\ netbox_reply = "ok"
    /\ custom_fields = <<>>

ValidateIdle ==
    /\ unvalidated_device = <<>>
    /\ unvalidated_interfaces = <<>>
    /\ validator_class = "None"
    /\ interface_validation_map = <<>>
    /\ validate_data_calls = <<>>
    /\ validated_interface_data = <<>>
    /\ error_identifier = <<>>

InitFnIdle ==
    /\ fn_pc = "idle"
    /\ ImportDictsIdle
    /\ ApiDictIdle
    /\ ModelIdle
    /\ CustomFieldsIdle
    /\ ValidateIdle

InitObjects ==
    /\ InitFnIdle
    /\ device_custom_fields = [w \in Workers |-> NoneV]
    /\ self_id = [w \in Workers |-> 0]
    /\ self_dict = [w \in Workers |-> <<>>]
    /\ interfaces = [w \in Workers |-> <<>>]
    /\ iter_index = [w \in Workers |-> 0]
    /\ calls = [w \in Workers |-> <<>>]
    /\ emitted = [w \in Workers |-> <<>>]
    /\ outcome = [w \in Workers |-> "none"]
    /\ queue = <<>>
    /\ rendered = <<>>
    /\ listener_pc = "running"
    /\ listener_problems = 0

InitRemote ==
    /\ update_mode \in BOOLEAN
    /\ remote \in { [n \in Names |-> IF n \in present THEN ExistingId(n) ELSE 0] :
                        present \in SUBSET Names }
    /\ remote_device = [n \in Names |-> <<>>]
    /\ next_id = FirstFreeId

\* A whole run of the script on a CSV file of at most MaxRows rows.
RunRowSet == { r \in RowSet : r.nif <= 1 /\ ~r.wlc }

CsvFiles == UNION { [1..n -> RunRowSet] : n \in 0..MaxRows }

Init ==
    /\ csv \in CsvFiles
    /\ InitRemote
    /\ main_pc = "vault"
    /\ vault_result = "none"
    /\ worker_process_list = <<>>
    /\ join_index = 0
    /\ wpc = [w \in Workers |-> "idle"]
    /\ InitObjects
    /\ handlers_may_raise = FALSE

Next ==
    \/ GetVaultSecret
    \/ StartWorker
    \/ ProcessCsvRaise
    \/ EndOfRows
    \/ JoinWorker
    \/ PutMarker
    \/ JoinListener
    \/ RootLoggingProcess
    \/ \E w \in Workers : WorkerNext(w)

Spec == Init /\ [][Next]_vars

\* The pipeline of one record: access_point on one row, in a worker that
\* process_csv has started.
InitRecord ==
    /\ csv \in [1..1 -> RowSet]
    /\ InitRemote
    /\ main_pc = "join"
    /\ vault_result = "ok"
    /\ worker_process_list = <<1>>
    /\ join_index = 0
    /\ wpc = [w \in Workers |-> IF w = 1 THEN "enrich" ELSE "idle"]
    /\ InitObjects
    /\ handlers_may_raise = FALSE

NextRecord == \E w \in Workers : WorkerNext(w)

SpecRecord == InitRecord /\ [][NextRecord]_vars

\* Two records with the same device name in two workers process_csv has
\* started; the rows differ at most in their interface columns and in the
\* controller association, which ends up in the device's custom fields.
RaceRowSet == { r \in RowSet : r.name = "ap1" /\ r.nif <= 1 /\ ~r.rfcf }

RaceWorkers == <<1, 2>>

InitRace ==
    /\ csv \in [DOMAIN RaceWorkers -> RaceRowSet]
    /\ InitRemote
    /\ main_pc = "join"
    /\ vault_result = "ok"
    /\ worker_process_list = RaceWorkers
    /\ join_index = 0
    /\ wpc = [w \in Workers |-> IF w \in DOMAIN RaceWorkers THEN "enrich" ELSE "idle"]
    /\ InitObjects
    /\ handlers_may_raise = FALSE

SpecRace == InitRace /\ [][NextRecord]_vars

\* ------------------------------------------------------------------------
\* Properties of the reconciliation of one record
\* ------------------------------------------------------------------------
CallIndexes(w) == 1..Len(calls[w])

CountCalls(w, op) == Cardinality({ i \in CallIndexes(w) : calls[w][i].op = op })

InterfaceOps == {"lookup_interface", "update_interfaces"}

DeviceOps == {"create_device", "update_device"}

\* The lookup of the record's own device name returned this result.
DeviceLookup(w, res) ==
    \E i \in CallIndexes(w) :
        /\ calls[w][i].op = "lookup_device"
        /\ calls[w][i].name = csv[w].name
        /\ calls[w][i].res = res

DeviceStepOk(w) ==
    \E i \in CallIndexes(w) : calls[w][i].op \in DeviceOps /\ calls[w][i].res = "ok"

DeviceStepRejected(w) ==
    \E i \in CallIndexes(w) : calls[w][i].op \in DeviceOps /\ calls[w][i].res = "rejected"

RenderedLines(w) == SelectSeq(emitted[w], Rendered)

\* C1: every interface lookup and the batched interface update of a record
\* come after a device create (or device update) call of that record that
\* returned successfully, and a device that was looked up and found absent is
\* created by the very next call.
C1_InterfaceCallsAfterDeviceCall ==
    \A w \in Workers :
        /\ \A i \in CallIndexes(w) :
              calls[w][i].op \in InterfaceOps =>
                  \E j \in 1..(i - 1) :
                      /\ calls[w][j].op \in DeviceOps
                      /\ calls[w][j].res = "ok"
                      /\ (calls[w][j].op = "create_device" => calls[w][j].id # 0)
        /\ \A i \in CallIndexes(w) :
              ( /\ calls[w][i].op = "lookup_device"
                /\ calls[w][i].name = csv[w].name
                /\ calls[w][i].res = "absent"
                /\ i < Len(calls[w]) ) => calls[w][i + 1].op = "create_device"

C1_Witness ==
    \E w \in Workers :
        /\ DeviceLookup(w, "absent")
        /\ HasCall(w, "create_device")
        /\ CountCalls(w, "lookup_interface") = MaxIfaces
        /\ HasCall(w, "update_interfaces")

\* C2: a record whose device was found while update mode is disabled issues
\* no create, device-update, interface-lookup or interface-update call, ends
\* Skipped, and logs exactly one record, the informational skip entry.
C2_SkipPath ==
    \A w \in Workers :
        (DeviceLookup(w, "found") /\ ~update_mode) =>
            /\ \A i \in CallIndexes(w) : calls[w][i].op \notin (DeviceOps \cup InterfaceOps)
            /\ wpc[w] = "done" =>
                  /\ outcome[w] = "Skipped"
                  /\ emitted[w] = <<LogRecord(w, "INFO", "skipping", csv[w].name)>>

C2_Witness ==
    \E w \in Workers :
        /\ DeviceLookup(w, "found")
        /\ ~update_mode
        /\ wpc[w] = "done"
        /\ outcome[w] = "Skipped"

\* C3: the path of a record is decided by (device found?, update enabled?):
\* found and enabled - one device update, no create; not found - one create,
\* no device update; found and disabled - neither.  Never both.
C3_ReconciliationDecision ==
    \A w \in Workers :
        /\ ~(HasCall(w, "create_device") /\ HasCall(w, "update_device"))
        /\ (wpc[w] = "done" /\ DeviceLookup(w, "found") /\ update_mode) =>
              (CountCalls(w, "update_device") = 1 /\ CountCalls(w, "create_device") = 0)
        /\ (wpc[w] = "done" /\ DeviceLookup(w, "absent")) =>
              (CountCalls(w, "create_device") = 1 /\ CountCalls(w, "update_device") = 0)
        /\ (wpc[w] = "done" /\ DeviceLookup(w, "found") /\ ~update_mode) =>
              (CountCalls(w, "create_device") = 0 /\ CountCalls(w, "update_device") = 0)

C3_Witness ==
    \E w \in Workers :
        /\ wpc[w] = "done"
        /\ DeviceLookup(w, "found")
        /\ update_mode
        /\ CountCalls(w, "update_device") = 1

\* C4: when the remote inventory rejects the device create or update call, no
\* interface call is made for the record, it ends Failed(Device) and its only
\* log record is an error naming the device.
C4_DeviceFailureAborts ==
    \A w \in Workers :
        DeviceStepRejected(w) =>
            /\ \A i \in CallIndexes(w) : calls[w][i].op \notin InterfaceOps
            /\ wpc[w] = "done" =>
                  /\ outcome[w] = "FailedDevice"
                  /\ emitted[w] =
                        <<LogRecord(w, "ERROR", "device_not_imported", csv[w].name)>>

C4_Witness ==
    \E w \in Workers :
        /\ DeviceStepRejected(w)
        /\ wpc[w] = "done"
        /\ outcome[w] = "FailedDevice"

InterfaceStepRejected(w) ==
    \E i \in CallIndexes(w) : calls[w][i].op \in InterfaceOps /\ calls[w][i].res = "rejected"

InterfaceLookupRaised(w) ==
    \E i \in CallIndexes(w) :
        calls[w][i].op = "lookup_interface" /\ calls[w][i].res \in {"rejected", "conn"}

\* C5 (as claimed): after a successful device step, a request failure of an
\* interface lookup or of the batched interface update ends the record as
\* Failed(Interface), logged by the worker as one error record.
C5_InterfaceFailureReported ==
    \A w \in Workers :
        (wpc[w] = "done" /\ DeviceStepOk(w) /\ InterfaceStepRejected(w)) =>
            /\ outcome[w] = "FailedInterface"
            /\ emitted[w] =
                  <<LogRecord(w, "ERROR", "interfaces_not_configured", csv[w].name)>>

\* The index of the k-th interface lookup of worker w in calls[w].
LookupIndex(w, k) ==
    CHOOSE i \in CallIndexes(w) :
        /\ calls[w][i].op = "lookup_interface"
        /\ Cardinality({ j \in 1..i : calls[w][j].op = "lookup_interface" }) = k

\* The payload list the batched update must carry: per interface of the row,
\* in order, the validated dict with the looked-up id, key fields raw.
ExpectedInterfacePayloads(w) ==
    [k \in 1..csv[w].nif |->
        LET d == [ValidInterface(InterfaceNames[k])
                    EXCEPT !["id"] = IdV(calls[w][LookupIndex(w, k)].id)]
        IN  [f \in DOMAIN d |-> IF f \in interface_key_fields THEN d[f] ELSE [slug |-> d[f]]]]

UpdateInterfacesAsExpected(w) ==
    /\ CountCalls(w, "update_interfaces") = 1
    /\ \A i \in CallIndexes(w) :
          calls[w][i].op = "update_interfaces" =>
              /\ Len(calls[w][i].payload) = csv[w].nif
              /\ calls[w][i].payload = ExpectedInterfacePayloads(w)

\* C6 (as claimed): every record whose device step succeeded issues exactly
\* one interface-update call, carrying one payload per interface in order.
C6_OneBatchedUpdatePerDeviceSuccess ==
    \A w \in Workers :
        (wpc[w] = "done" /\ DeviceStepOk(w)) => UpdateInterfacesAsExpected(w)

\* C6 (amended): every record whose device step succeeded and whose interface
\* identifier lookups all returned issues exactly one interface-update call,
\* carrying one payload per interface in order; a record one of whose lookups
\* raised issues none; no record issues more than one.
C6_OneBatchedUpdateAfterLookups ==
    \A w \in Workers :
        /\ CountCalls(w, "update_interfaces") <= 1
        /\ (wpc[w] = "done" /\ DeviceStepOk(w) /\ ~InterfaceLookupRaised(w)) =>
              UpdateInterfacesAsExpected(w)
        /\ InterfaceLookupRaised(w) => CountCalls(w, "update_interfaces") = 0

C6_Witness ==
    \E w \in Workers :
        /\ wpc[w] = "done"
        /\ DeviceStepOk(w)
        /\ csv[w].nif = MaxIfaces
        /\ ~InterfaceLookupRaised(w)
        /\ CountCalls(w, "update_interfaces") = 1

\* C7: an interface's set_id runs, and an interface holds a resolved id, only
\* while the id of the owning device is not None.
C7_InterfaceIdNeedsDeviceId ==
    \A w \in Workers :
        /\ HasCall(w, "lookup_interface") => self_id[w] # 0
        /\ \A k \in 1..Len(interfaces[w]) : interfaces[w][k].id # 0 => self_id[w] # 0

C7_Witness ==
    \E w \in Workers :
        /\ Len(interfaces[w]) > 0
        /\ interfaces[w][1].id # 0
        /\ self_id[w] # 0

\* C8: after a successful create_device the device's id attribute and the
\* "id" entry of its dict equal the identifier the create call returned, and
\* no lookup_device call follows the create.
C8_CreatedIdMergedBack ==
    \A w \in Workers :
        \A i \in CallIndexes(w) :
            (calls[w][i].op = "create_device" /\ calls[w][i].res = "ok") =>
                /\ calls[w][i].id # 0
                /\ self_id[w] = calls[w][i].id
                /\ self_dict[w]["id"] = IntV(calls[w][i].id)
                /\ \A j \in (i + 1)..Len(calls[w]) : calls[w][j].op # "lookup_device"

C8_Witness ==
    \E w \in Workers :
        /\ HasCall(w, "create_device")
        /\ DeviceStepOk(w)
        /\ self_id[w] >= FirstFreeId

\* ------------------------------------------------------------------------
\* Properties of the run
\* ------------------------------------------------------------------------
MarkerPut == main_pc \in {"join_listener", "exit"}

\* C9 (as claimed): once the termination marker has been put on the queue,
\* every worker process that was started has finished.
C9_MarkerAfterAllWorkers ==
    MarkerPut =>
        \A i \in 1..Len(worker_process_list) : wpc[worker_process_list[i]] = "done"

\* C10 (as claimed): a worker that has ended has produced exactly one log
\* line that the listener renders.
C10_OneTerminalLinePerRecord ==
    \A w \in Workers : wpc[w] = "done" => Len(RenderedLines(w)) = 1

TerminalOutcomes ==
    {"Created", "Updated", "Skipped", "FailedDeviceValidation",
     "FailedInterfaceValidation", "FailedDevice", "FailedInterface",
     "FailedConnection"}

AllRowsStarted == Len(worker_process_list) = Len(csv)

\* C11 (as claimed): in a run that started one worker per row and in which
\* one record failed the interface validation (an invalid MAC address), once
\* the listener has processed the termination marker every worker has ended
\* with a terminal outcome and the listener has rendered exactly one line
\* per record.
C11_IsolationUnderPartialFailure ==
    ( /\ listener_pc = "stopped"
      /\ AllRowsStarted
      /\ \E k \in 1..Len(csv) : outcome[k] = "FailedInterfaceValidation" ) =>
        /\ \A w \in 1..Len(csv) : wpc[w] = "done" /\ outcome[w] \in TerminalOutcomes
        /\ Len(rendered) = Len(csv)

\* The first call worker w made to the remote inventory failed on the
\* connection or on the token.
FirstContactFailed(w) ==
    /\ calls[w] # <<>>
    /\ calls[w][1].op = "lookup_device"
    /\ calls[w][1].res \in {"conn", "rejected"}

VaultFailed == vault_result = "VaultError"

\* C12 (as claimed): a run in which obtaining the secret failed, or in which
\* the first contact with the remote inventory failed on the connection or
\* the token, has started no worker.
C12_ConnectionFailureStartsNoWorker ==
    (VaultFailed \/ \E w \in Workers : FirstContactFailed(w)) =>
        worker_process_list = <<>>

\* C12 (amended): a vault error while obtaining the secret leaves the run
\* without any worker, started or running.  A connection or token failure on
\* a worker's first contact with the remote inventory happens in a started
\* worker; it makes no further call, and it ends as a failed connection with
\* one rendered error line, whatever the other workers do.
C12_VaultFailureStartsNoWorker ==
    /\ VaultFailed =>
          /\ worker_process_list = <<>>
          /\ \A w \in Workers : wpc[w] = "idle" /\ calls[w] = <<>>
    /\ \A w \in Workers :
          FirstContactFailed(w) =>
              /\ \E i \in 1..Len(worker_process_list) : worker_process_list[i] = w
              /\ Len(calls[w]) = 1
              /\ wpc[w] = "done"
              /\ outcome[w] = "FailedConnection"
              /\ Len(RenderedLines(w)) = 1
              /\ RenderedLines(w)[1].level = "ERROR"
              /\ RenderedLines(w)[1].msg \in
                    {"unable_to_connect_url", "unable_to_connect_token"}

\* A worker failed on its first contact while another worker of the same run
\* went on to create its device.
C12_Witness ==
    \E w, v \in Workers :
        /\ w # v
        /\ FirstContactFailed(w)
        /\ wpc[w] = "done"
        /\ outcome[v] = "Created"

\* The main script has run its last statement or died on an exception.
MainScriptEnded == main_pc \in {"exit", "crashed"}

\* C13 (as claimed): the run never ends with the listener still blocked on
\* the queue - whenever the main script has ended, after the workers
\* finished, after a vault error, or after a secret mapping without the
\* expected keys, the listener has received the marker and stopped.
C13_ListenerStoppedWhenScriptEnds ==
    MainScriptEnded => listener_pc = "stopped"

\* The last call of worker w after a step in which it made one call.
NewCall(w) == calls'[w][Len(calls'[w])]

MadeCall(w) == Len(calls'[w]) = Len(calls[w]) + 1

UpdatedOk(w) ==
    \E i \in CallIndexes(w) : calls[w][i].op = "update_device" /\ calls[w][i].res = "ok"

RowLoopCompleted == main_pc = "join" \/ join_index > 0

MaxColumns == 3

\* Values of the row: a string is held as its sequence of characters, so that
\* the groups of a match are strings too.
NoText == [t |-> "none", s |-> <<>>, i |-> 0]

Text(chars) == [t |-> "str", s |-> chars, i |-> 0]

\* An int, and a float with a zero fractional part (n.0).
Number(n) == [t |-> "int", s |-> <<>>, i |-> n]

Float(n) == [t |-> "float", s |-> <<>>, i |-> n]

Digits == {"0", "1", "2", "3", "4", "5", "6", "7", "8", "9"}

StartsWith(string, prefix) ==
    /\ Len(string) >= Len(prefix)
    /\ SubSeq(string, 1, Len(prefix)) = prefix

\* The index of the last character of the run of digits that begins at
\* index i of the string (i - 1 when there is no digit at i).
RECURSIVE DigitsEnd(_, _)
DigitsEnd(string, i) ==
    IF i <= Len(string) /\ string[i] \in Digits
    THEN DigitsEnd(string, i + 1)
    ELSE i - 1

\* re.match(r"^(wired|radio\d+)_(.*)$", header).groups(): the pair
\* (interface_name, interface_attribute), or <<>> when there is no match.
re_match(header) ==
    LET wired == <<"w", "i", "r", "e", "d">>
        radio == <<"r", "a", "d", "i", "o">>
        j     == DigitsEnd(header, Len(radio) + 1)
    IN  IF StartsWith(header, wired \o <<"_">>)
        THEN <<wired, SubSeq(header, Len(wired) + 2, Len(header))>>
        ELSE IF /\ StartsWith(header, radio)
                /\ j > Len(radio)
                /\ j < Len(header)
                /\ header[j + 1] = "_"
        THEN <<SubSeq(header, 1, j), SubSeq(header, j + 2, Len(header))>>
        ELSE <<>>

\* Python truthiness of a value.
Truthy(value) == value # NoText /\ value # Text(<<>>) /\ value # Number(0)

NameKey == <<"n", "a", "m", "e">>

\* dict.pop(key) and dict.update({key: value}) on a dict held as a function.
DictPop(dict, key) == [k \in DOMAIN dict \ {key} |-> dict[k]]

DictUpdate(dict, key, value) == (key :> value) @@ dict

\* One turn of "for header, value in csv_row.items()".
ImportDictsStepMutPopIfValue(item, device, ifaces) ==
    LET groups == re_match(item.header)
    IN  IF groups = <<>>
        THEN [device_dict |-> device, interface_dict |-> ifaces]
        ELSE LET interface_name      == groups[1]
                 interface_attribute == groups[2]
                 seeded == IF interface_name \in DOMAIN ifaces
                           THEN ifaces
                           ELSE DictUpdate(ifaces, interface_name,
                                           (NameKey :> Text(interface_name)))
             IN  IF Truthy(item.value)
                 THEN [device_dict |-> DictPop(device, item.header),
                       interface_dict |->
                           DictUpdate(seeded, interface_name,
                               DictUpdate(seeded[interface_name],
                                          interface_attribute, item.value))]
                 ELSE [device_dict |-> device, interface_dict |-> seeded]

ImportDictsStepMutSeedIfValue(item, device, ifaces) ==
    LET groups == re_match(item.header)
    IN  IF groups = <<>>
        THEN [device_dict |-> device, interface_dict |-> ifaces]
        ELSE LET interface_name      == groups[1]
                 interface_attribute == groups[2]
                 seeded == IF interface_name \in DOMAIN ifaces
                           THEN ifaces
                           ELSE DictUpdate(ifaces, interface_name,
                                           (NameKey :> Text(interface_name)))
             IN  [device_dict |-> DictPop(device, item.header),
                  interface_dict |->
                      IF Truthy(item.value)
                      THEN DictUpdate(seeded, interface_name,
                               DictUpdate(seeded[interface_name],
                                          interface_attribute, item.value))
                      ELSE ifaces]

ImportDictsStep(item, device, ifaces) ==
    LET groups == re_match(item.header)
    IN  IF groups = <<>>
        THEN [device_dict |-> device, interface_dict |-> ifaces]
        ELSE LET interface_name      == groups[1]
                 interface_attribute == groups[2]
                 \* "if not interface_dict.get(interface_name)": an entry is
                 \* never empty, so it is seeded once.
                 seeded == IF interface_name \in DOMAIN ifaces
                           THEN ifaces
                           ELSE DictUpdate(ifaces, interface_name,
                                           (NameKey :> Text(interface_name)))
             IN  [device_dict |-> DictPop(device, item.header),
                  interface_dict |->
                      IF Truthy(item.value)
                      THEN DictUpdate(seeded, interface_name,
                               DictUpdate(seeded[interface_name],
                                          interface_attribute, item.value))
                      ELSE seeded]

RECURSIVE ImportDictsLoop(_, _, _)
ImportDictsLoop(items, device, ifaces) ==
    IF items = <<>>
    THEN [device_dict |-> device, interface_dict |-> ifaces]
    ELSE LET r == ImportDictsStep(Head(items), device, ifaces)
         IN  ImportDictsLoop(Tail(items), r.device_dict, r.interface_dict)

\* The row as a dict: header -> value.
RowDict(items) ==
    [h \in { items[i].header : i \in DOMAIN items } |->
        items[CHOOSE i \in DOMAIN items : items[i].header = h].value]

generate_import_dicts(items) == ImportDictsLoop(items, RowDict(items), <<>>)

\* The column headers of the rows studied.
Headers ==
    { <<"n", "a", "m", "e">>,
      <<"r", "a", "d", "i", "o", "_", "x">>,
      <<"w", "i", "r", "e", "d", "_", "m", "a", "c">>,
      <<"w", "i", "r", "e", "d", "_", "n", "a", "m", "e">>,
      <<"w", "i", "r", "e", "d", "_">>,
      <<"r", "a", "d", "i", "o", "0", "_", "c", "h">>,
      <<"r", "a", "d", "i", "o", "1", "0", "_", "c", "h">> }

ColumnValues == {NoText, Text(<<>>), Text(<<"a">>)}

Item(h, v) == [header |-> h, value |-> v]

\* Rows of at most MaxColumns columns with distinct headers.
CsvRows ==
    UNION { { r \in [1..n -> { Item(h, v) : h \in Headers, v \in ColumnValues }] :
                \A i, j \in 1..n : i # j => r[i].header # r[j].header } :
            n \in 0..MaxColumns }

\* The run of the script is not under study: it is over, with nothing done.
InitNoRun ==
    /\ update_mode = TRUE
    /\ csv = <<>>
    /\ remote = [n \in Names |-> 0]
    /\ remote_device = [n \in Names |-> <<>>]
    /\ next_id = FirstFreeId
    /\ main_pc = "exit"
    /\ vault_result = "ok"
    /\ worker_process_list = <<>>
    /\ join_index = 0
    /\ wpc = [w \in Workers |-> "idle"]
    /\ device_custom_fields = [w \in Workers |-> NoneV]
    /\ self_id = [w \in Workers |-> 0]
    /\ self_dict = [w \in Workers |-> <<>>]
    /\ interfaces = [w \in Workers |-> <<>>]
    /\ iter_index = [w \in Workers |-> 0]
    /\ calls = [w \in Workers |-> <<>>]
    /\ emitted = [w \in Workers |-> <<>>]
    /\ outcome = [w \in Workers |-> "none"]
    /\ queue = <<>>
    /\ rendered = <<>>
    /\ listener_pc = "stopped"
    /\ listener_problems = 0
    /\ handlers_may_raise = FALSE

run_vars ==
    <<update_mode, csv, remote, remote_device, next_id, main_vars, worker_vars,
      queue, listener_vars>>

InitImportDicts ==
    /\ InitNoRun
    /\ fn_pc = "call"
    /\ csv_row \in CsvRows
    /\ device_dict = <<>>
    /\ interface_dict = <<>>
    /\ ApiDictIdle
    /\ ModelIdle
    /\ CustomFieldsIdle
    /\ ValidateIdle

GenerateImportDicts ==
    /\ fn_pc = "call"
    /\ LET r == generate_import_dicts(csv_row)
       IN  /\ device_dict' = r.device_dict
           /\ interface_dict' = r.interface_dict
    /\ fn_pc' = "return"
    /\ UNCHANGED <<csv_row, api_dict_vars, model_vars, custom_fields_vars,
                   validate_vars, run_vars>>

SpecImportDicts == InitImportDicts /\ [][GenerateImportDicts]_vars

\* The headers of the row, those that name an interface column, and the
\* value of a column.
RowHeaders == { csv_row[i].header : i \in DOMAIN csv_row }

InterfaceHeaders == { h \in RowHeaders : re_match(h) # <<>> }

ColumnValue(h) == csv_row[CHOOSE i \in DOMAIN csv_row : csv_row[i].header = h].value

\* C16: the device dict returned for a row holds exactly the columns whose
\* header does not match the interface pattern, each with the value of the
\* row; a column whose header matches is absent, also when its value is
\* empty or None.
C16_DeviceDictIsNonInterfaceColumns ==
    fn_pc = "return" =>
        /\ DOMAIN device_dict = RowHeaders \ InterfaceHeaders
        /\ \A h \in DOMAIN device_dict : device_dict[h] = ColumnValue(h)
        /\ \A h \in InterfaceHeaders : h \notin DOMAIN device_dict

\* A row with a device column, an interface column with an empty value and an
\* interface column with a value has been split.
C16_Witness ==
    /\ fn_pc = "return"
    /\ \E h \in InterfaceHeaders : ~Truthy(ColumnValue(h))
    /\ \E h \in InterfaceHeaders : Truthy(ColumnValue(h))
    /\ \E h \in DOMAIN device_dict : Truthy(device_dict[h])

\* The interface columns of the row that belong to the interface named p,
\* and those of them that carry a value.
ColumnsOf(p) == { h \in InterfaceHeaders : re_match(h)[1] = p }

FilledColumnsOf(p) == { h \in ColumnsOf(p) : Truthy(ColumnValue(h)) }

\* C17: the interface dict returned for a row has one entry for every
\* interface name that occurs in a matching header and no other entry; the
\* keys of an entry are "name" and the attributes of the interface's columns
\* whose value is not empty, each with the value of its column; "name" holds
\* the interface name unless a filled column <prefix>_name replaces it; an
\* interface whose columns are all empty has the "name" key only.
C17_InterfaceDictIsFilledInterfaceColumns ==
    fn_pc = "return" =>
        /\ DOMAIN interface_dict = { re_match(h)[1] : h \in InterfaceHeaders }
        /\ \A p \in DOMAIN interface_dict :
              /\ DOMAIN interface_dict[p] =
                    {NameKey} \cup { re_match(h)[2] : h \in FilledColumnsOf(p) }
              /\ \A h \in FilledColumnsOf(p) :
                    interface_dict[p][re_match(h)[2]] = ColumnValue(h)
              /\ (\A h \in FilledColumnsOf(p) : re_match(h)[2] # NameKey) =>
                    interface_dict[p][NameKey] = Text(p)
              /\ FilledColumnsOf(p) = {} => interface_dict[p] = (NameKey :> Text(p))

\* A row with an interface whose columns are all empty and another interface
\* with a filled column has been split.
C17_Witness ==
    /\ fn_pc = "return"
    /\ \E p \in DOMAIN interface_dict :
          ColumnsOf(p) # {} /\ FilledColumnsOf(p) = {} /\ DOMAIN interface_dict[p] = {NameKey}
    /\ \E p \in DOMAIN interface_dict :
          FilledColumnsOf(p) # {} /\ Cardinality(DOMAIN interface_dict[p]) > 1

\* ------------------------------------------------------------------------
\* generate_api_dict on its own: dicts of at most MaxFields fields of the
\* device and interface models, with the key fields of the access point, of
\* its interfaces, or none (key_fields=None becomes the empty tuple).
\* ------------------------------------------------------------------------
MaxFields == 2

ModelFields ==
    {"id", "name", "serial", "asset_tag", "device_role", "manufacturer",
     "device_type", "region", "site", "location", "status", "platform",
     "custom_fields", "mac_address", "enabled", "rf_role", "tx_power",
     "rf_channel_frequency", "rf_channel_width", "rf_channel"}

FieldValues == {NoneV, StrV("v"), IntV(1)}

ApiInputs ==
    UNION { [fields -> FieldValues] :
            fields \in { f \in SUBSET ModelFields : Cardinality(f) <= MaxFields } }

InitApiDict ==
    /\ InitNoRun
    /\ fn_pc = "call"
    /\ api_input \in ApiInputs
    /\ api_key_fields \in {device_key_fields, interface_key_fields, {}}
    /\ api_dict = <<>>
    /\ ImportDictsIdle
    /\ ModelIdle
    /\ CustomFieldsIdle
    /\ ValidateIdle

GenerateApiDict ==
    /\ fn_pc = "call"
    /\ api_dict' = generate_api_dict(api_input, api_key_fields)
    /\ fn_pc' = "return"
    /\ UNCHANGED <<api_input, api_key_fields, import_dicts_vars, model_vars,
                   custom_fields_vars, validate_vars, run_vars>>

SpecApiDict == InitApiDict /\ [][GenerateApiDict]_vars

\* A value wrapped as {"slug": value}.
IsSlug(x, value) == DOMAIN x = {"slug"} /\ x["slug"] = value

valid_channel_numbers_24ghz == 1..13

denied_channel_numbers_24ghz == {2, 3, 4, 5, 7, 8, 9, 10, 12, 13}

allowed_channel_numbers_24ghz ==
    valid_channel_numbers_24ghz \ denied_channel_numbers_24ghz

channel_range_5ghz_20mhz ==
    {36, 38, 40, 42, 44, 46, 48, 50, 52, 54, 56,
     58, 60, 62, 64, 100, 102, 104, 106, 108, 110, 112,
     114, 116, 118, 120, 122, 124, 126, 128, 132, 134, 136,
     138, 140, 142, 151, 153, 155, 157, 159, 161, 163, 165}

channel_range_5ghz_40mhz ==
    {38, 46, 54, 62, 102, 110, 118, 126, 134, 142, 151, 159}

channel_range_5ghz_80mhz == {42, 58, 106, 122, 138, 155}

channel_range_5ghz_160mhz == {50, 114}

valid_channel_numbers_5ghz ==
    channel_range_5ghz_20mhz \cup channel_range_5ghz_40mhz
        \cup channel_range_5ghz_80mhz \cup channel_range_5ghz_160mhz

denied_channel_numbers_5ghz == {44, 167, 169, 171, 173, 175, 177}

allowed_channel_numbers_5ghz ==
    valid_channel_numbers_5ghz \ denied_channel_numbers_5ghz

allowed_channel_width_5ghz == {20, 40, 80, 160}

default_channel_width_5ghz == 20

default_channel_width_24ghz == 22

\* One entry of a width's translation dict: the channels of the tuple and the
\* channel number they translate to.
Bonded(channels, translated) == [channels |-> channels, translated |-> translated]

\* netbox_channel_width_translation: width -> its entries, in dict order.
netbox_channel_width_translation ==
    (40 :> << Bonded({36, 38, 40}, 38),
              Bonded({44, 46, 48}, 46),
              Bonded({52, 54, 56}, 54),
              Bonded({60, 62, 64}, 62),
              Bonded({100, 102, 104}, 102),
              Bonded({108, 110, 112}, 110),
              Bonded({116, 118, 120}, 118),
              Bonded({124, 126, 128}, 126),
              Bonded({132, 134, 136}, 134),
              Bonded({140, 142, 144}, 142),
              Bonded({149, 151, 153}, 151),
              Bonded({157, 159, 161}, 159) >>)
    @@ (80 :> << Bonded({36, 38, 40, 42, 44, 46, 48}, 42),
                 Bonded({52, 54, 56, 58, 60, 62, 64}, 58),
                 Bonded({100, 102, 104, 106, 108, 110, 112}, 106),
                 Bonded({116, 118, 120, 122, 124, 126, 128}, 122),
                 Bonded({132, 134, 136, 138, 140, 142, 144}, 138),
                 Bonded({149, 151, 153, 155, 157, 159, 161}, 155) >>)
    @@ (160 :> << Bonded({36, 38, 40, 42, 44, 46, 48, 50, 52, 54, 56, 58, 60, 62, 64}, 50),
                  Bonded({100, 102, 104, 106, 108, 110, 112, 114, 116, 118, 120, 122,
                          124, 126, 128}, 114) >>)

\* A dict given by its (key, value) pairs.
DictOf(pairs) ==
    [k \in { q[1] : q \in pairs } |-> (CHOOSE q \in pairs : q[1] = k)[2]]

\* The table with 42 mapped to 38, the primary channel of the 40 MHz group.
netbox_channel_to_cisco_wlc_translation_MutPrimaryOf40 ==
    DictOf({ <<38, 36>>, <<42, 38>>, <<46, 44>>, <<50, 36>>, <<54, 52>>, <<58, 52>>,
             <<62, 60>>, <<102, 100>>, <<106, 100>>, <<110, 108>>, <<114, 100>>,
             <<118, 116>>, <<122, 116>>, <<126, 124>>, <<134, 132>>, <<138, 132>>,
             <<142, 140>>, <<151, 149>>, <<155, 149>>, <<159, 157>> })

netbox_channel_to_cisco_wlc_translation ==
    DictOf({ <<38, 36>>, <<42, 36>>, <<46, 44>>, <<50, 36>>, <<54, 52>>, <<58, 52>>,
             <<62, 60>>, <<102, 100>>, <<106, 100>>, <<110, 108>>, <<114, 100>>,
             <<118, 116>>, <<122, 116>>, <<126, 124>>, <<134, 132>>, <<138, 132>>,
             <<142, 140>>, <<151, 149>>, <<155, 149>>, <<159, 157>> })

\* channel_center_frequencies: channel -> MHz; every value of the table is a
\* float with a zero fractional part, held here by its whole number.
center_frequency_mhz ==
    DictOf({ <<1, 2412>>, <<2, 2417>>, <<3, 2422>>, <<4, 2427>>, <<5, 2432>>,
             <<6, 2437>>, <<7, 2442>>, <<8, 2447>>, <<9, 2452>>, <<10, 2457>>,
             <<11, 2462>>, <<12, 2467>>, <<13, 2472>>,
             <<36, 5180>>, <<38, 5190>>, <<40, 5200>>, <<42, 5210>>, <<44, 5220>>,
             <<46, 5230>>, <<48, 5240>>, <<50, 5250>>, <<52, 5260>>, <<54, 5270>>,
             <<56, 5280>>, <<58, 5290>>, <<60, 5300>>, <<62, 5310>>, <<64, 5320>>,
             <<100, 5500>>, <<102, 5510>>, <<104, 5520>>, <<106, 5530>>,
             <<108, 5540>>, <<110, 5550>>, <<112, 5560>>, <<114, 5570>>,
             <<116, 5580>>, <<118, 5590>>, <<120, 5600>>, <<122, 5610>>,
             <<124, 5620>>, <<126, 5630>>, <<128, 5640>>, <<132, 5660>>,
             <<134, 5670>>, <<136, 5680>>, <<138, 5690>>, <<140, 5700>>,
             <<142, 5710>>, <<144, 5720>>, <<149, 5745>>, <<151, 5755>>,
             <<153, 5765>>, <<155, 5775>>, <<157, 5785>>, <<159, 5795>>,
             <<161, 5805>>, <<165, 5825>> })

channel_center_frequencies ==
    [c \in DOMAIN center_frequency_mhz |-> Float(center_frequency_mhz[c])]

\* ------------------------------------------------------------------------
\* Conversions between strings and numbers
\* ------------------------------------------------------------------------
DigitChars == <<"0", "1", "2", "3", "4", "5", "6", "7", "8", "9">>

DigitValue(char) == (CHOOSE d \in DOMAIN DigitChars : DigitChars[d] = char) - 1

\* str(n) of a natural number: its decimal digits.
RECURSIVE NatToStr(_)
NatToStr(n) ==
    IF n < Len(DigitChars)
    THEN <<DigitChars[n + 1]>>
    ELSE NatToStr(n \div Len(DigitChars)) \o <<DigitChars[(n % Len(DigitChars)) + 1]>>

RECURSIVE StrToNat(_)
StrToNat(chars) ==
    IF chars = <<>>
    THEN 0
    ELSE StrToNat(SubSeq(chars, 1, Len(chars) - 1)) * Len(DigitChars)
            + DigitValue(chars[Len(chars)])

\* int(value) raises ValueError unless a string is made of decimal digits.
IsNumeric(value) ==
    \/ value.t \in {"int", "float"}
    \/ /\ value.t = "str"
       /\ value.s # <<>>
       /\ \A k \in DOMAIN value.s : value.s[k] \in Digits

\* int(value) of a numeric value.
ToInt(value) == IF value.t = "str" THEN StrToNat(value.s) ELSE value.i

\* str(value), also what an f-string renders: a float keeps its fractional
\* part.
ToStr(value) ==
    CASE value.t = "str"   -> value.s
      [] value.t = "int"   -> NatToStr(value.i)
      [] value.t = "float" -> NatToStr(value.i) \o <<".", "0">>
      [] OTHER             -> <<"N", "o", "n", "e">>

\* ------------------------------------------------------------------------
\* NetboxWirelessApInterfaceModel: the pre root validators, in the order of
\* the class body.  Each takes the values dict and gives the dict it returns
\* and the exception that leaves it ("none": it returns); a ValueError or an
\* AssertionError leaves the model as a ValidationError.
\* ------------------------------------------------------------------------
Band24 == Text(<<"2", ".", "4">>)

Band5 == Text(<<"5">>)

\* dict.get(key)
Get(dict, key) == IF key \in DOMAIN dict THEN dict[key] ELSE NoText

Returns(dict) == [values |-> dict, raised |-> "none"]

Raises(dict, exc) == [values |-> dict, raised |-> exc]

validate_channel_MutNoAllowedCheck(v) ==
    LET rf_band        == Get(v, "band")
        channel_number == Get(v, "channel_number")
    IN  IF ~Truthy(rf_band) THEN Returns(v)
        ELSE IF ~Truthy(channel_number) THEN Raises(v, "ValidationError")
        ELSE IF ~IsNumeric(channel_number) THEN Raises(v, "ValidationError")
        ELSE Returns(DictUpdate(v, "channel_number", Number(ToInt(channel_number))))

validate_channel(v) ==
    LET rf_band        == Get(v, "band")
        channel_number == Get(v, "channel_number")
    IN  IF ~Truthy(rf_band) THEN Returns(v)
        ELSE IF ~Truthy(channel_number) THEN Raises(v, "ValidationError")
        ELSE IF ~IsNumeric(channel_number) THEN Raises(v, "ValidationError")
        ELSE IF /\ rf_band = Band24
                /\ ToInt(channel_number) \notin allowed_channel_numbers_24ghz
        THEN Raises(v, "ValidationError")
        ELSE IF /\ rf_band = Band5
                /\ ToInt(channel_number) \notin allowed_channel_numbers_5ghz
        THEN Raises(v, "ValidationError")
        ELSE Returns(DictUpdate(v, "channel_number", Number(ToInt(channel_number))))

validate_channel_width_MutSameForBothBands(v) ==
    LET rf_band       == Get(v, "band")
        channel_width == Get(v, "channel_width")
    IN  IF ~Truthy(rf_band) THEN Returns(v)
        ELSE IF rf_band \in {Band24, Band5}
        THEN IF Truthy(channel_width)
             THEN IF ~IsNumeric(channel_width) THEN Raises(v, "ValidationError")
                  ELSE IF ToInt(channel_width) \notin allowed_channel_width_5ghz
                  THEN Raises(v, "ValidationError")
                  ELSE Returns(DictUpdate(v, "rf_channel_width",
                                          Number(ToInt(channel_width))))
             ELSE Returns(DictUpdate(v, "rf_channel_width",
                                     Number(IF rf_band = Band24
                                            THEN default_channel_width_24ghz
                                            ELSE default_channel_width_5ghz)))
        ELSE Returns(v)

validate_channel_width_MutDefaultOnInvalid(v) ==
    LET rf_band       == Get(v, "band")
        channel_width == Get(v, "channel_width")
    IN  IF ~Truthy(rf_band) THEN Returns(v)
        ELSE IF rf_band = Band24
        THEN Returns(DictUpdate(v, "rf_channel_width", Number(default_channel_width_24ghz)))
        ELSE IF rf_band = Band5
        THEN IF /\ Truthy(channel_width)
                /\ IsNumeric(channel_width)
                /\ ToInt(channel_width) \in allowed_channel_width_5ghz
             THEN Returns(DictUpdate(v, "rf_channel_width",
                                     Number(ToInt(channel_width))))
             ELSE Returns(DictUpdate(v, "rf_channel_width",
                                     Number(default_channel_width_5ghz)))
        ELSE Returns(v)

validate_channel_width(v) ==
    LET rf_band       == Get(v, "band")
        channel_width == Get(v, "channel_width")
    IN  IF ~Truthy(rf_band) THEN Returns(v)
        ELSE IF rf_band = Band24
        THEN Returns(DictUpdate(v, "rf_channel_width", Number(default_channel_width_24ghz)))
        ELSE IF rf_band = Band5
        THEN IF Truthy(channel_width)
             THEN IF ~IsNumeric(channel_width) THEN Raises(v, "ValidationError")
                  ELSE IF ToInt(channel_width) \notin allowed_channel_width_5ghz
                  THEN Raises(v, "ValidationError")
                  ELSE Returns(DictUpdate(v, "rf_channel_width",
                                          Number(ToInt(channel_width))))
             ELSE Returns(DictUpdate(v, "rf_channel_width",
                                     Number(default_channel_width_5ghz)))
        ELSE Returns(v)

\* The loop over the entries of a width: the translated channel of the first
\* tuple that holds the channel, or 0 when the loop ends without a break
\* (netbox_channel_number is then unbound).
RECURSIVE TranslatedChannel(_, _)
TranslatedChannel(entries, channel) ==
    IF entries = <<>> THEN 0
    ELSE IF channel \in Head(entries).channels THEN Head(entries).translated
    ELSE TranslatedChannel(Tail(entries), channel)

\* The center frequency as the f-string renders it.
FrequencyTextMutFloat(frequency) == ToStr(frequency)

FrequencyText(frequency) == ToStr(Number(ToInt(frequency)))

set_rf_channel(v) ==
    LET rf_band == Get(v, "band")
    IN  IF ~Truthy(rf_band) THEN Returns(v)
        ELSE IF "rf_channel_width" \notin DOMAIN v THEN Raises(v, "KeyError")
        ELSE
        LET width    == v["rf_channel_width"].i
            in_table == width \in DOMAIN netbox_channel_width_translation
            netbox_channel_number ==
                IF in_table
                THEN TranslatedChannel(netbox_channel_width_translation[width],
                                       v["channel_number"].i)
                ELSE v["channel_number"].i
        IN  IF in_table /\ netbox_channel_number = 0
            THEN Raises(v, "UnboundLocalError")
            ELSE IF netbox_channel_number \notin DOMAIN channel_center_frequencies
            THEN Raises(v, "KeyError")
            ELSE Returns(
                    DictUpdate(
                        DictUpdate(v, "rf_channel",
                            Text(ToStr(rf_band) \o <<"g", "-">>
                                 \o ToStr(Number(netbox_channel_number)) \o <<"-">>
                                 \o FrequencyText(
                                        channel_center_frequencies[netbox_channel_number])
                                 \o <<"-">> \o ToStr(v["rf_channel_width"]))),
                        "netbox_channel_number", Number(netbox_channel_number)))

set_custom_field_rf_channel(v) ==
    LET rf_band == Get(v, "band")
    IN  IF rf_band # Band24 /\ rf_band # Band5
        THEN Raises(v, "UnboundLocalError")
        ELSE
        LET wlc_channel ==
                IF rf_band = Band24 THEN v["channel_number"]
                ELSE IF v["netbox_channel_number"].i
                            \in DOMAIN netbox_channel_to_cisco_wlc_translation
                THEN Number(netbox_channel_to_cisco_wlc_translation[
                                v["netbox_channel_number"].i])
                ELSE v["netbox_channel_number"]
        IN  Returns(DictUpdate(v, "custom_fields",
                        DictUpdate(v["custom_fields"], "wlc_rf_channel",
                                   Text(ToStr(wlc_channel)))))

\* ------------------------------------------------------------------------
\* The dicts handed to the model for a radio interface: name and custom
\* fields, and the band, channel_number and channel_width columns that were
\* filled in.
\* ------------------------------------------------------------------------
BandInputs == {Band24, Band5, Text(<<"6">>)}

ChannelNumbers ==
    0..14 \cup valid_channel_numbers_5ghz \cup denied_channel_numbers_5ghz
        \cup {144, 149}

ChannelInputs == { Text(NatToStr(n)) : n \in ChannelNumbers } \cup {Text(<<"x">>)}

WidthInputs ==
    { Text(NatToStr(n)) : n \in allowed_channel_width_5ghz \cup {30} }
        \cup {Text(<<"x">>), Text(<<>>)}

Optional(key, inputs) == {<<>>} \cup { (key :> x) : x \in inputs }

InterfaceDataInputs ==
    { ("name" :> Text(<<"r", "a", "d", "i", "o", "0">>)) @@ ("custom_fields" :> <<>>)
        @@ b @@ c @@ w :
        b \in Optional("band", BandInputs),
        c \in Optional("channel_number", ChannelInputs),
        w \in Optional("channel_width", WidthInputs) }

InitModel ==
    /\ InitNoRun
    /\ fn_pc = "validate_channel"
    /\ interface_data \in InterfaceDataInputs
    /\ values = interface_data
    /\ raised = "none"
    /\ ImportDictsIdle
    /\ ApiDictIdle
    /\ CustomFieldsIdle
    /\ ValidateIdle

\* A validator runs and the next one follows whether it raised or not.
RunValidator_MutContinueAfterRaise(result, next) ==
    /\ values' = result.values
    /\ raised' = result.raised
    /\ fn_pc' = next
    /\ UNCHANGED <<interface_data, import_dicts_vars, api_dict_vars,
                   custom_fields_vars, validate_vars, run_vars>>

\* A validator runs; when it raises, the model is left with the exception.
RunValidator(result, next) ==
    /\ values' = result.values
    /\ raised' = result.raised
    /\ fn_pc' = IF result.raised = "none" THEN next ELSE "raised"
    /\ UNCHANGED <<interface_data, import_dicts_vars, api_dict_vars,
                   custom_fields_vars, validate_vars, run_vars>>

ValidateChannel ==
    /\ fn_pc = "validate_channel"
    /\ RunValidator(validate_channel(values), "validate_channel_width")

ValidateChannelWidth ==
    /\ fn_pc = "validate_channel_width"
    /\ RunValidator(validate_channel_width(values), "set_rf_channel")

SetRfChannel ==
    /\ fn_pc = "set_rf_channel"
    /\ RunValidator(set_rf_channel(values), "set_custom_field_rf_channel")

SetCustomFieldRfChannel ==
    /\ fn_pc = "set_custom_field_rf_channel"
    /\ RunValidator(set_custom_field_rf_channel(values), "return")

NextModel ==
    \/ ValidateChannel
    \/ ValidateChannelWidth
    \/ SetRfChannel
    \/ SetCustomFieldRfChannel

SpecModel == InitModel /\ [][NextModel]_vars

\* The model was handed this band, channel number and channel width.
RadioInput(band, channel_number, channel_width) ==
    /\ Get(interface_data, "band") = band
    /\ Get(interface_data, "channel_number") = Text(channel_number)
    /\ Get(interface_data, "channel_width") =
          (IF channel_width = <<>> THEN NoText ELSE Text(channel_width))

HasRfChannel == "rf_channel" \in DOMAIN values

\* "<band>g-<netbox channel>-<frequency>-<width>" with the frequency text
\* given.
RfChannelText(frequency_text) ==
    Text(ToStr(values["band"]) \o <<"g", "-">>
         \o ToStr(values["netbox_channel_number"]) \o <<"-">>
         \o frequency_text \o <<"-">> \o ToStr(values["rf_channel_width"]))

TableFrequency == channel_center_frequencies[values["netbox_channel_number"].i]

\* C19 (as claimed): rf_channel is "<band>g-<netbox channel>-<frequency>-
\* <width>" with the center frequency rendered as the float of the table:
\* band 5, channel 36, width 40 gives "5g-38-5190.0-40" and band 2.4,
\* channel 6 gives "2.4g-6-2437.0-22".
C19_RfChannelWithFloatFrequency ==
    HasRfChannel =>
        /\ values["rf_channel"] = RfChannelText(ToStr(TableFrequency))
        /\ RadioInput(Band5, <<"3", "6">>, <<"4", "0">>) =>
              values["rf_channel"] = Text(<<"5", "g", "-", "3", "8", "-", "5", "1", "9", "0", ".", "0", "-", "4", "0">>)
        /\ RadioInput(Band24, <<"6">>, <<>>) =>
              values["rf_channel"] = Text(<<"2", ".", "4", "g", "-", "6", "-", "2", "4", "3", "7", ".", "0", "-", "2", "2">>)

\* C19 (amended): rf_channel is "<band>g-<netbox channel>-<frequency>-
\* <width>" with the center frequency of the netbox channel rendered as an
\* integer, int(frequency): band 5, channel 36, width 40 gives
\* "5g-38-5190-40" and band 2.4, channel 6 gives "2.4g-6-2437-22"; no
\* rf_channel holds a ".", apart from the one of the band "2.4".
C19_RfChannelWithIntegerFrequency ==
    HasRfChannel =>
        /\ values["rf_channel"] = RfChannelText(NatToStr(TableFrequency.i))
        /\ RadioInput(Band5, <<"3", "6">>, <<"4", "0">>) =>
              values["rf_channel"] = Text(<<"5", "g", "-", "3", "8", "-", "5", "1", "9", "0", "-", "4", "0">>)
        /\ RadioInput(Band24, <<"6">>, <<>>) =>
              values["rf_channel"] = Text(<<"2", ".", "4", "g", "-", "6", "-", "2", "4", "3", "7", "-", "2", "2">>)
        /\ \A k \in DOMAIN values["rf_channel"].s :
              values["rf_channel"].s[k] = "." => k <= Len(ToStr(values["band"]))

\* The model has encoded band 5, channel 36, width 40.
C19_Witness ==
    /\ fn_pc = "return"
    /\ RadioInput(Band5, <<"3", "6">>, <<"4", "0">>)
    /\ values["netbox_channel_number"] = Number(38)
    /\ values["rf_channel"] = Text(<<"5", "g", "-", "3", "8", "-", "5", "1", "9", "0", "-", "4", "0">>)

\* The model was handed band 2.4 and one of its allowed channels.
Allowed24Input ==
    /\ Get(interface_data, "band") = Band24
    /\ IsNumeric(Get(interface_data, "channel_number"))
    /\ ToInt(Get(interface_data, "channel_number")) \in allowed_channel_numbers_24ghz

\* C20: for band 2.4 and an allowed channel c (1, 6 or 11), whatever the
\* channel_width column holds (nothing, an allowed width, a width that is
\* not allowed, a text that is no number), no validator raises, the width is
\* 22, the netbox channel is c and the wlc_rf_channel custom field is c, as
\* the string str(c).
C20_Band24FixedWidthAndChannel ==
    Allowed24Input =>
        LET c == ToInt(Get(interface_data, "channel_number"))
        IN  /\ c \in {1, 6, 11}
            /\ raised = "none" /\ fn_pc # "raised"
            /\ fn_pc \in {"set_rf_channel", "set_custom_field_rf_channel", "return"} =>
                  values["rf_channel_width"] = Number(22)
            /\ fn_pc \in {"set_custom_field_rf_channel", "return"} =>
                  values["netbox_channel_number"] = Number(c)
            /\ fn_pc = "return" =>
                  /\ values["channel_number"] = Number(c)
                  /\ values["custom_fields"]["wlc_rf_channel"] = Text(NatToStr(c))

\* Band 2.4, channel 11 and a channel_width column that holds no number have
\* gone through all the validators.
C20_Witness ==
    /\ fn_pc = "return"
    /\ Allowed24Input
    /\ RadioInput(Band24, <<"1", "1">>, <<"x">>)
    /\ values["rf_channel_width"] = Number(22)

\* The tuples of the bonding map for a width, and the model's input given by
\* numbers.
BondingTuples(width) ==
    { netbox_channel_width_translation[width][k] :
        k \in DOMAIN netbox_channel_width_translation[width] }

Band5Input(channel_number, channel_width) ==
    RadioInput(Band5, NatToStr(channel_number), NatToStr(channel_width))

\* C21 (as claimed): for every width of the bonding map (40, 80, 160), every
\* tuple of that width and every member channel c of the tuple, the model
\* handed band 5, channel c and that width raises nothing, its netbox channel
\* is the channel the tuple translates to and its wlc_rf_channel custom field
\* is the entry of netbox_channel_to_cisco_wlc_translation for that channel.
C21_ChannelRoundTrip ==
    \A width \in DOMAIN netbox_channel_width_translation :
        \A tuple \in BondingTuples(width) :
            \A c \in tuple.channels :
                Band5Input(c, width) =>
                    /\ raised = "none"
                    /\ fn_pc = "return" =>
                          /\ values["netbox_channel_number"] = Number(tuple.translated)
                          /\ tuple.translated \in
                                DOMAIN netbox_channel_to_cisco_wlc_translation
                          /\ values["custom_fields"]["wlc_rf_channel"] =
                                Text(NatToStr(netbox_channel_to_cisco_wlc_translation[
                                                  tuple.translated]))

\* C23: validate_channel_width for band 5.  A channel_width that is given
\* and is one of 20, 40, 80, 160 becomes rf_channel_width, as that number; a
\* channel_width that is given and is another number, or no number at all,
\* leaves the model as a ValidationError; a channel_width that is absent or
\* empty gives rf_channel_width 20.
C23_ResolveWidthBand5 ==
    [][ (fn_pc = "validate_channel_width" /\ Get(values, "band") = Band5) =>
            LET requested == Get(values, "channel_width")
                allowed   == /\ IsNumeric(requested)
                             /\ ToInt(requested) \in {20, 40, 80, 160}
            IN  /\ (Truthy(requested) /\ allowed) =>
                      /\ raised' = "none"
                      /\ fn_pc' = "set_rf_channel"
                      /\ values'["rf_channel_width"] = Number(ToInt(requested))
                /\ (Truthy(requested) /\ ~allowed) =>
                      /\ raised' = "ValidationError"
                      /\ fn_pc' = "raised"
                      /\ "rf_channel_width" \notin DOMAIN values'
                /\ ~Truthy(requested) =>
                      /\ raised' = "none"
                      /\ fn_pc' = "set_rf_channel"
                      /\ values'["rf_channel_width"] = Number(20) ]_vars

\* Band 5 with an allowed channel and the width 30, which is not allowed, has
\* been refused by validate_channel_width.
C23_Witness ==
    /\ Band5Input(36, 30)
    /\ fn_pc = "raised"
    /\ raised = "ValidationError"
    /\ values["channel_number"] = Number(36)
    /\ "rf_channel_width" \notin DOMAIN values

\* ------------------------------------------------------------------------
\* The pydantic models.  A model runs its pre root validators, those of the
\* base class first, then validates its fields; the first validator that
\* raises ends it.  The result is the dict of the model (.dict()) or the
\* exception that leaves the constructor.
\* ------------------------------------------------------------------------
Bool(b) == [t |-> "bool", s |-> <<>>, i |-> IF b THEN 1 ELSE 0]

HexDigits ==
    Digits \cup {"a", "b", "c", "d", "e", "f", "A", "B", "C", "D", "E", "F"}

MacLength == 17

\* netaddr.valid_mac, for the notations the rows use: six groups of two
\* hexadecimal digits joined by ":" or by "-".
valid_mac(chars) ==
    /\ Len(chars) = MacLength
    /\ \E separator \in {":", "-"} :
          \A k \in 1..MacLength :
              IF k % 3 = 0 THEN chars[k] = separator ELSE chars[k] \in HexDigits

\* NetboxBaseInterfaceModel.mac_to_mac_address
mac_to_mac_address(v) ==
    IF Truthy(Get(v, "mac"))
    THEN Returns(DictUpdate(v, "mac_address", v["mac"]))
    ELSE Returns(v)

\* A field of type Optional[int] / Union[int, None]: the int of a numeric
\* value, None for None; any other value is an error of the field.
OptionalIntOk(value) == value = NoText \/ IsNumeric(value)

OptionalInt(value) == IF value = NoText THEN NoText ELSE Number(ToInt(value))

\* The fields of NetboxBaseInterfaceModel: id, name, mac_address (required,
\* checked by check_mac_address) and enabled, which no row studied here
\* sets, so that it has its default, True.
BaseInterfaceFieldsOk(v) ==
    /\ OptionalIntOk(Get(v, "id"))
    /\ Get(v, "name") # NoText
    /\ Get(v, "mac_address") # NoText
    /\ valid_mac(ToStr(v["mac_address"]))

BaseInterfaceDict(v) ==
    ("id" :> OptionalInt(Get(v, "id")))
        @@ ("name" :> Text(ToStr(v["name"])))
        @@ ("mac_address" :> Text(ToStr(v["mac_address"])))
        @@ ("enabled" :> Bool(TRUE))

base_interface_fields(v) ==
    IF BaseInterfaceFieldsOk(v)
    THEN Returns(BaseInterfaceDict(v))
    ELSE Raises(v, "ValidationError")

\* The element of a set of one element: in Only({ f(x) : x \in {e} }) the
\* value of e is computed once and f works on that value.
Only(set) == CHOOSE x \in set : TRUE

\* The pre root validator runs first, the fields are validated on what it
\* returned.
NetboxBaseInterfaceModel(data) ==
    Only({ IF mac.raised = "none" THEN base_interface_fields(mac.values) ELSE mac :
            mac \in {mac_to_mac_address(data)} })

\* The fields NetboxWirelessApInterfaceModel adds: rf_role, tx_power,
\* rf_channel_frequency (default None), rf_channel_width (required),
\* rf_channel and custom_fields (required, with wlc_rf_channel).
wireless_interface_fields(v) ==
    IF /\ BaseInterfaceFieldsOk(v)
       /\ OptionalIntOk(Get(v, "tx_power"))
       /\ Get(v, "rf_channel_width") # NoText
       /\ IsNumeric(Get(v, "rf_channel_width"))
       /\ "custom_fields" \in DOMAIN v
    THEN Returns(
            BaseInterfaceDict(v)
                @@ ("rf_role" :> Get(v, "rf_role"))
                @@ ("tx_power" :> OptionalInt(Get(v, "tx_power")))
                @@ ("rf_channel_frequency" :> Get(v, "rf_channel_frequency"))
                @@ ("rf_channel_width" :> Number(ToInt(v["rf_channel_width"])))
                @@ ("rf_channel" :> Get(v, "rf_channel"))
                @@ ("custom_fields" :>
                        ("wlc_rf_channel" :> Get(v["custom_fields"], "wlc_rf_channel"))))
    ELSE Raises(v, "ValidationError")

\* The pre root validators run in the order of the classes' bodies, each on
\* what the one before returned; the first that raises ends the validation.
AfterMac(mac) ==
    IF mac.raised = "none" THEN validate_channel(mac.values) ELSE mac

AfterChannel(channel) ==
    IF channel.raised = "none" THEN validate_channel_width(channel.values) ELSE channel

AfterWidth(width) ==
    IF width.raised = "none" THEN set_rf_channel(width.values) ELSE width

AfterRfChannel(rf) ==
    IF rf.raised = "none" THEN set_custom_field_rf_channel(rf.values) ELSE rf

AfterValidators(wlc) ==
    IF wlc.raised = "none" THEN wireless_interface_fields(wlc.values) ELSE wlc

NetboxWirelessApInterfaceModel(data) ==
    Only({ AfterValidators(wlc) :
            wlc \in { AfterRfChannel(rf) :
                rf \in { AfterWidth(width) :
                    width \in { AfterChannel(channel) :
                        channel \in { AfterMac(mac) :
                            mac \in {mac_to_mac_address(data)} } } } } })

\* str.lower()
UpperChars ==
    <<"A", "B", "C", "D", "E", "F", "G", "H", "I", "J", "K", "L", "M",
      "N", "O", "P", "Q", "R", "S", "T", "U", "V", "W", "X", "Y", "Z">>

LowerChars ==
    <<"a", "b", "c", "d", "e", "f", "g", "h", "i", "j", "k", "l", "m",
      "n", "o", "p", "q", "r", "s", "t", "u", "v", "w", "x", "y", "z">>

Lower(chars) ==
    [k \in DOMAIN chars |->
        IF \E u \in DOMAIN UpperChars : UpperChars[u] = chars[k]
        THEN LowerChars[CHOOSE u \in DOMAIN UpperChars : UpperChars[u] = chars[k]]
        ELSE chars[k]]

permitted_status ==
    { <<"a", "c", "t", "i", "v", "e">>,
      <<"d", "e", "c", "o", "m", "m", "i", "s", "s", "i", "o", "n", "i", "n", "g">>,
      <<"f", "a", "i", "l", "e", "d">>,
      <<"i", "n", "v", "e", "n", "t", "o", "r", "y">>,
      <<"o", "f", "f", "l", "i", "n", "e">>,
      <<"p", "l", "a", "n", "n", "e", "d">>,
      <<"s", "t", "a", "g", "e", "d">> }

\* check_device_status: the status in lower case, or a ValueError.
check_device_status_ok(status) == Lower(status) \in permitted_status

RequiredDeviceFields == {"serial", "device_role", "device_type", "site"}

OptionalDeviceFields == {"asset_tag", "manufacturer", "region", "location", "platform"}

\* NetboxWirelessApDeviceModel: the fields of NetboxBaseDeviceModel (name of
\* at least one character, status "active" by default and checked when given)
\* and the custom fields, each an optional int.
NetboxWirelessApDeviceModel(data) ==
    IF /\ OptionalIntOk(Get(data, "id"))
       /\ Get(data, "name") # NoText
       /\ Len(ToStr(data["name"])) >= 1
       /\ \A f \in RequiredDeviceFields : Get(data, f) # NoText
       /\ Get(data, "status") # NoText => check_device_status_ok(ToStr(data["status"]))
       /\ "custom_fields" \in DOMAIN data
       /\ \A f \in DOMAIN data["custom_fields"] : OptionalIntOk(data["custom_fields"][f])
    THEN Returns(
            [f \in {"id", "name", "status", "custom_fields"}
                    \cup RequiredDeviceFields \cup OptionalDeviceFields |->
                CASE f = "id" -> OptionalInt(Get(data, "id"))
                  [] f = "status" ->
                        IF Get(data, "status") = NoText
                        THEN Text(<<"a", "c", "t", "i", "v", "e">>)
                        ELSE Text(Lower(ToStr(data["status"])))
                  [] f = "custom_fields" ->
                        [c \in {"wlc_primary_association", "wlc_secondary_association",
                                "wlc_tertiary_association"} |->
                            OptionalInt(Get(data["custom_fields"], c))]
                  [] f \in OptionalDeviceFields -> Get(data, f)
                  [] OTHER -> Text(ToStr(data[f]))])
    ELSE Raises(data, "ValidationError")

\* ------------------------------------------------------------------------
\* validate_data, validate_device_dict and validate_interface_dict
\* ------------------------------------------------------------------------
\* validation_class(**unvalidated_dict); calling None raises a TypeError.
Construct(validation_class, unvalidated_dict) ==
    CASE validation_class = "NetboxBaseInterfaceModel" ->
            NetboxBaseInterfaceModel(unvalidated_dict)
      [] validation_class = "NetboxWirelessApInterfaceModel" ->
            NetboxWirelessApInterfaceModel(unvalidated_dict)
      [] validation_class = "NetboxWirelessApDeviceModel" ->
            NetboxWirelessApDeviceModel(unvalidated_dict)
      [] OTHER -> Raises(unvalidated_dict, "TypeError")

\* validate_data: a pydantic ValidationError becomes NetboxDataValidationError,
\* any other exception leaves the function as it is.
validate_data(validation_class, unvalidated_dict) ==
    Only({ IF normalized_data.raised = "ValidationError"
           THEN Raises(unvalidated_dict, "NetboxDataValidationError")
           ELSE normalized_data :
            normalized_data \in {Construct(validation_class, unvalidated_dict)} })

validate_device_dict(validator_cls, device) ==
    Only({ IF validated_device_data.raised = "NetboxDataValidationError"
           THEN Raises(device, "NetboxDeviceDataValidationError")
           ELSE validated_device_data :
            validated_device_data \in {validate_data(validator_cls, device)} })

\* "sub in string" for two strings.
Contains(string, sub) ==
    \E k \in 0..(Len(string) - Len(sub)) : SubSeq(string, k + 1, k + Len(sub)) = sub

\* An item of a mapping, which keeps the order its keys were inserted in.
MapItem(key, value) == [key |-> key, value |-> value]

\* get_interface_validation_model: the class of the first item of the map
\* whose key is part of the interface name, "None" when there is none.
RECURSIVE get_interface_validation_model(_, _)
get_interface_validation_model(model_map, interface_name) ==
    IF model_map = <<>> \/ interface_name = <<>> THEN "None"
    ELSE IF Contains(interface_name, Head(model_map).key) THEN Head(model_map).value
    ELSE get_interface_validation_model(Tail(model_map), interface_name)

\* The class validate_interface_dict validates an interface with:
\* "get_interface_validation_model(...) or validator_class".
ValidationClass(model_map, interface_name, default_class) ==
    LET mapped == get_interface_validation_model(model_map, interface_name)
    IN  IF mapped # "None" THEN mapped ELSE default_class

\* What validate_interface_dict has done so far: the validated interfaces,
\* the calls of validate_data, the exception raised and the interface the
\* exception names (<<>>: none).
ValidateInterfaceResult(data, done, exc, identifier) ==
    [data |-> data, calls |-> done, raised |-> exc, identifier |-> identifier]

\* "for interface_name, interface_data in interface_dict.items()" inside the
\* try block: the loop ends at the first exception; NetboxDataValidationError
\* is raised again as NetboxInterfaceDataValidationError with the name of
\* the interface.
RECURSIVE ValidateInterfaceLoop(_, _, _, _, _)
ValidateInterfaceLoop(items, default_class, model_map, data, done) ==
    IF items = <<>>
    THEN ValidateInterfaceResult(data, done, "none", <<>>)
    ELSE LET interface_name   == Head(items).key
             validation_class == ValidationClass(model_map, interface_name, default_class)
             called           == Append(done, MapItem(interface_name, validation_class))
         IN  Only({ IF result.raised = "NetboxDataValidationError"
                    THEN ValidateInterfaceResult(data, called,
                            "NetboxInterfaceDataValidationError", interface_name)
                    ELSE IF result.raised # "none"
                    THEN ValidateInterfaceResult(data, called, result.raised, <<>>)
                    ELSE ValidateInterfaceLoop(Tail(items), default_class, model_map,
                            Append(data, MapItem(interface_name, result.values)), called) :
                     result \in {validate_data(validation_class, Head(items).value)} })

\* validate_interface_dict: without a class and without a map nothing is
\* validated and NetboxInterfaceDataValidationError is raised.
validate_interface_dict(items, default_class, model_map) ==
    IF default_class # "None" \/ model_map # <<>>
    THEN ValidateInterfaceLoop(items, default_class, model_map, <<>>, <<>>)
    ELSE ValidateInterfaceResult(<<>>, <<>>, "NetboxInterfaceDataValidationError", <<>>)

\* access_point: the class of the device and the map of the interfaces.
device_validation_class == "NetboxWirelessApDeviceModel"

interface_to_validation_class_map ==
    << MapItem(<<"w", "i", "r", "e", "d">>, "NetboxBaseInterfaceModel"),
       MapItem(<<"r", "a", "d", "i", "o">>, "NetboxWirelessApInterfaceModel") >>

\* ------------------------------------------------------------------------
\* The dicts access_point hands to the validation: the device dict with its
\* custom fields, and per interface the dict generate_import_dicts made,
\* with the (empty) custom fields of the enrichment.
\* ------------------------------------------------------------------------
Chars(name) ==
    CASE name = "ap1"    -> <<"a", "p", "1">>
      [] name = "ap2"    -> <<"a", "p", "2">>
      [] name = "wired"  -> <<"w", "i", "r", "e", "d">>
      [] name = "radio0" -> <<"r", "a", "d", "i", "o", "0">>
      [] name = "radio1" -> <<"r", "a", "d", "i", "o", "1">>
      [] name = "radio2" -> <<"r", "a", "d", "i", "o", "2">>

ValidMac ==
    Text(<<"0", "0", ":", "1", "a", ":", "2", "B", ":", "3", "c", ":", "4", "d", ":", "5", "e">>)

InvalidMac == Text(<<"0", "0", ":", "1", "a", ":", "2", "g">>)

\* A device dict with every required field; one without a serial number;
\* one whose status is written with a capital; one with an unknown status.
DeviceData(name) ==
    ("name" :> Text(Chars(name)))
        @@ ("serial" :> Text(<<"s", "1">>))
        @@ ("device_role" :> Text(<<"a", "p">>))
        @@ ("device_type" :> Text(<<"t", "1">>))
        @@ ("site" :> Text(<<"h", "q">>))
        @@ ("custom_fields" :> <<>>)

DeviceInputs(name) ==
    { DeviceData(name),
      DictPop(DeviceData(name), "serial"),
      DictUpdate(DeviceData(name), "status", Text(<<"A", "c", "t", "i", "v", "e">>)),
      DictUpdate(DeviceData(name), "status", Text(<<"u", "p">>)) }

\* An interface with no column filled in: the entry holds its name only.
Placeholder(name) == ("name" :> Text(name)) @@ ("custom_fields" :> <<>>)

WithMac(data, mac) == DictUpdate(data, "mac", mac)

WiredInputs(name) ==
    { Placeholder(name), WithMac(Placeholder(name), ValidMac),
      WithMac(Placeholder(name), InvalidMac) }

\* The band, channel_number and channel_width columns of a radio.
RadioColumns(band, channel_number, channel_width) ==
    ("band" :> Text(band))
        @@ (IF channel_number = <<>> THEN <<>>
            ELSE ("channel_number" :> Text(channel_number)))
        @@ (IF channel_width = <<>> THEN <<>>
            ELSE ("channel_width" :> Text(channel_width)))

RadioColumnInputs ==
    { RadioColumns(<<"5">>, <<"3", "6">>, <<"4", "0">>),
      RadioColumns(<<"2", ".", "4">>, <<"6">>, <<>>),
      RadioColumns(<<"5">>, <<"4", "5">>, <<>>),
      RadioColumns(<<"2", ".", "4">>, <<"2">>, <<>>),
      RadioColumns(<<"5">>, <<"1", "6", "5">>, <<"4", "0">>),
      RadioColumns(<<"5">>, <<"1", "6", "3">>, <<>>),
      RadioColumns(<<"6">>, <<"1">>, <<>>),
      RadioColumns(<<"6">>, <<>>, <<>>) }

RadioInputs(name) ==
    { WithMac(Placeholder(name), ValidMac) @@ columns : columns \in RadioColumnInputs }
        \cup { Placeholder(name),
               WithMac(Placeholder(name), ValidMac),
               Placeholder(name) @@ RadioColumns(<<"5">>, <<"3", "6">>, <<"4", "0">>),
               WithMac(Placeholder(name), InvalidMac)
                    @@ RadioColumns(<<"5">>, <<"3", "6">>, <<"4", "0">>) }

InterfaceInputs(name) ==
    IF name = "wired" THEN WiredInputs(Chars(name)) ELSE RadioInputs(Chars(name))

\* The interface dicts of a row with n interfaces, in the order of the
\* columns: wired, radio0, radio1, ...
InterfaceItems(n) ==
    { items \in [1..n -> UNION { { MapItem(Chars(InterfaceNames[k]), data) :
                                    data \in InterfaceInputs(InterfaceNames[k]) } :
                                 k \in 1..n }] :
        \A k \in 1..n : items[k].key = Chars(InterfaceNames[k]) }

\* ------------------------------------------------------------------------
\* The validation of one record in its worker: access_point from
\* validate_device_dict on.
\* ------------------------------------------------------------------------
ValidateRecord(w) ==
    /\ wpc[w] = "validate"
    /\ \E valid_device \in
               {validate_device_dict(device_validation_class, unvalidated_device)},
          valid_interfaces \in
               {validate_interface_dict(unvalidated_interfaces, validator_class,
                                        interface_validation_map)} :
       LET device_call ==
               <<MapItem(ToStr(Get(unvalidated_device, "name")), device_validation_class)>>
           exc == IF valid_device.raised # "none"
                  THEN valid_device.raised
                  ELSE valid_interfaces.raised
       IN  /\ validate_data_calls' =
                  IF valid_device.raised # "none"
                  THEN device_call
                  ELSE device_call \o valid_interfaces.calls
           /\ validated_interface_data' =
                  IF exc = "none" THEN valid_interfaces.data ELSE <<>>
           /\ error_identifier' =
                  IF valid_device.raised # "none" THEN <<>> ELSE valid_interfaces.identifier
           /\ raised' = exc
           /\ IF exc = "none"
              THEN /\ wpc' = [wpc EXCEPT ![w] = "construct"]
                   /\ UNCHANGED <<outcome, emitted, queue>>
              ELSE Raise(w, exc)
    /\ UNCHANGED <<fn_pc, import_dicts_vars, api_dict_vars, interface_data, values,
                   custom_fields_vars, unvalidated_device, unvalidated_interfaces,
                   validator_class, interface_validation_map>>
    /\ UNCHANGED <<update_mode, csv, remote, remote_device, next_id, main_vars,
                   listener_vars, object_vars, calls>>

InitValidate ==
    /\ \E n \in 0..MaxIfaces :
          /\ csv = <<Row("ap1", n, FALSE, FALSE)>>
          /\ unvalidated_interfaces \in InterfaceItems(n)
    /\ unvalidated_device \in DeviceInputs("ap1")
    /\ validator_class = "None"
    /\ interface_validation_map = interface_to_validation_class_map
    /\ validate_data_calls = <<>>
    /\ validated_interface_data = <<>>
    /\ error_identifier = <<>>
    /\ InitRemote
    /\ main_pc = "join"
    /\ vault_result = "ok"
    /\ worker_process_list = <<1>>
    /\ join_index = 0
    /\ wpc = [w \in Workers |-> IF w = 1 THEN "validate" ELSE "idle"]
    /\ device_custom_fields = [w \in Workers |-> IF w = 1 THEN DictV("") ELSE NoneV]
    /\ self_id = [w \in Workers |-> 0]
    /\ self_dict = [w \in Workers |-> <<>>]
    /\ interfaces = [w \in Workers |-> <<>>]
    /\ iter_index = [w \in Workers |-> 0]
    /\ calls = [w \in Workers |-> <<>>]
    /\ emitted = [w \in Workers |-> <<>>]
    /\ outcome = [w \in Workers |-> "none"]
    /\ queue = <<>>
    /\ rendered = <<>>
    /\ listener_pc = "running"
    /\ listener_problems = 0
    /\ handlers_may_raise = FALSE
    /\ fn_pc = "idle"
    /\ ImportDictsIdle
    /\ ApiDictIdle
    /\ ModelIdle
    /\ CustomFieldsIdle

NextValidate ==
    \E w \in Workers :
        \/ ValidateRecord(w)
        \/ ConstructDevice(w)
        \/ UpdateDevice(w)
        \/ SkipImport(w)
        \/ CreateDevice(w)
        \/ SetInterfaceId(w)
        \/ UpdateInterfaces(w)

SpecValidate == InitValidate /\ [][NextValidate]_vars

\* ------------------------------------------------------------------------
\* Properties of the validation of a record
\* ------------------------------------------------------------------------
\* The worker of the record, and the dict of its k-th interface.
RecordWorker == 1

InterfaceData(k) == unvalidated_interfaces[k].value

\* validate_data was called for the k-th interface and for none after it:
\* the device and the interfaces before it passed.
ValidationEndedAt(k) == Len(validate_data_calls) = k + 1

InterfaceValidationLine ==
    <<LogRecord(RecordWorker, "ERROR", "interface_validation", csv[RecordWorker].name)>>

\* The record ended as an interface validation failure that names the k-th
\* interface, logged as one error record.
InterfaceValidationFailure(k) ==
    /\ raised = "NetboxInterfaceDataValidationError"
    /\ error_identifier = unvalidated_interfaces[k].key
    /\ outcome[RecordWorker] = "FailedInterfaceValidation"
    /\ emitted[RecordWorker] = InterfaceValidationLine

\* A 5 GHz channel that is allowed, with a width of the bonding map none of
\* whose tuples holds the channel.
NotBonded(data) ==
    /\ Get(data, "band") = Band5
    /\ IsNumeric(Get(data, "channel_number"))
    /\ ToInt(Get(data, "channel_number")) \in allowed_channel_numbers_5ghz
    /\ IsNumeric(Get(data, "channel_width"))
    /\ ToInt(Get(data, "channel_width")) \in DOMAIN netbox_channel_width_translation
    /\ TranslatedChannel(netbox_channel_width_translation[ToInt(Get(data, "channel_width"))],
                         ToInt(Get(data, "channel_number"))) = 0

\* C22 (as claimed): when the validation of a record comes to a radio
\* interface whose 5 GHz channel is allowed but belongs to no tuple of the
\* bonding map for its width (channel 165, width 40), the record ends as an
\* interface validation failure, which the worker logs as an error.
C22_UnbondedChannelIsValidationFailure ==
    \A k \in DOMAIN unvalidated_interfaces :
        (NotBonded(InterfaceData(k)) /\ ValidationEndedAt(k)) =>
            InterfaceValidationFailure(k)

\* The channel number of the interface is not one of the allowed channels of
\* its band.
ChannelNotAllowed(data) ==
    /\ IsNumeric(Get(data, "channel_number"))
    /\ \/ /\ Get(data, "band") = Band24
          /\ ToInt(Get(data, "channel_number")) \notin allowed_channel_numbers_24ghz
       \/ /\ Get(data, "band") = Band5
          /\ ToInt(Get(data, "channel_number")) \notin allowed_channel_numbers_5ghz

\* C24: a record with a radio interface whose channel number is not allowed
\* for its band (band 5, channel 45; band 2.4, channel 2) never gets past the
\* validation and makes no remote call: no lookup of its device, no create
\* or update, no interface lookup.  No interface after that one is
\* validated, and when the validation comes to it the record ends as an
\* interface validation failure that names the interface, logged as one
\* error record.
C24_ChannelNotAllowedMakesNoCall ==
    \A k \in DOMAIN unvalidated_interfaces :
        ChannelNotAllowed(InterfaceData(k)) =>
            /\ calls[RecordWorker] = <<>>
            /\ wpc[RecordWorker] \in {"validate", "done"}
            /\ self_id[RecordWorker] = 0
            /\ Len(validate_data_calls) <= k + 1
            /\ ValidationEndedAt(k) => InterfaceValidationFailure(k)

\* The record with a valid wired interface and a radio on band 5, channel 45
\* has ended.
C24_Witness ==
    /\ Len(unvalidated_interfaces) = 2
    /\ Get(InterfaceData(2), "band") = Band5
    /\ Get(InterfaceData(2), "channel_number") = Text(<<"4", "5">>)
    /\ ChannelNotAllowed(InterfaceData(2))
    /\ ValidationEndedAt(2)
    /\ wpc[RecordWorker] = "done"
    /\ InterfaceValidationFailure(2)

\* The validation has failed or crashed.
ValidationEnded == raised # "none"

\* The class validate_interface_dict used for the j-th call of validate_data
\* (the first call is the one for the device).
InterfaceValidatedAlone(j) ==
    validate_data(validate_data_calls[j + 1].value, InterfaceData(j))

\* C26 (as claimed): the device is validated before any interface, the
\* interfaces are validated in the order of the mapping, the validation
\* stops at the first violation - everything validated before it was valid
\* and nothing after it is validated - and the record's single failure, one
\* rendered error line, carries the identifier of the device or interface
\* that failed.
C26_FirstViolationOnly ==
    /\ validate_data_calls # <<>> =>
          validate_data_calls[1].value = device_validation_class
    /\ \A j \in 2..Len(validate_data_calls) :
          validate_data_calls[j].key = unvalidated_interfaces[j - 1].key
    /\ ValidationEnded =>
          /\ wpc[RecordWorker] = "done"
          /\ calls[RecordWorker] = <<>>
          /\ \A j \in 1..(Len(validate_data_calls) - 2) :
                InterfaceValidatedAlone(j).raised = "none"
          /\ Len(RenderedLines(RecordWorker)) = 1
          /\ RenderedLines(RecordWorker)[1].level = "ERROR"
          /\ RenderedLines(RecordWorker)[1].device = csv[RecordWorker].name
          /\ IF Len(validate_data_calls) = 1
             THEN /\ raised = "NetboxDeviceDataValidationError"
                  /\ outcome[RecordWorker] = "FailedDeviceValidation"
             ELSE InterfaceValidationFailure(Len(validate_data_calls) - 1)

\* An entry that holds its name only, besides the custom fields access_point
\* adds to every entry.
IsPlaceholder(data) == DOMAIN data = {"name", "custom_fields"}

\* C29 (as claimed): when the validation of a record comes to a placeholder
\* interface, wired or radio, the record ends as an interface validation
\* failure that names the interface, logged as one error record; the record
\* makes no remote call and no other exception leaves the worker.
C29_PlaceholderIsValidationFailure ==
    \A k \in DOMAIN unvalidated_interfaces :
        (IsPlaceholder(InterfaceData(k)) /\ ValidationEndedAt(k)) =>
            /\ InterfaceValidationFailure(k)
            /\ calls[RecordWorker] = <<>>
            /\ outcome[RecordWorker] # "Crashed"

\* The band of the interface is given and is neither "2.4" nor "5".
OtherBand(data) ==
    /\ Truthy(Get(data, "band"))
    /\ Get(data, "band") \notin {Band24, Band5}

\* C30 (as claimed): when the validation of a record comes to a radio
\* interface whose band is given but is neither "2.4" nor "5", the record
\* ends as an interface validation failure: the interface never passes and
\* no other exception is raised.
C30_OtherBandIsValidationFailure ==
    \A k \in DOMAIN unvalidated_interfaces :
        (OtherBand(InterfaceData(k)) /\ ValidationEndedAt(k)) =>
            /\ raised # "none"
            /\ InterfaceValidationFailure(k)

\* ------------------------------------------------------------------------
\* validate_interface_dict called on its own: interfaces in any order, with
\* or without a default class, with or without a map.
\* ------------------------------------------------------------------------
\* An interface no key of access_point's map is part of.
Eth0 == <<"e", "t", "h", "0">>

DictInterfaceNames == {Chars("wired"), Chars("radio0"), Eth0}

\* Per interface: the name alone; a name with a MAC address; a complete
\* radio on band 5.
DictInterfaceData(name) ==
    { Placeholder(name),
      WithMac(Placeholder(name), ValidMac),
      WithMac(Placeholder(name), ValidMac)
            @@ RadioColumns(<<"5">>, <<"3", "6">>, <<"4", "0">>) }

DictInterfaceItems ==
    UNION { { items \in [1..n -> UNION { { MapItem(name, data) :
                                            data \in DictInterfaceData(name) } :
                                         name \in DictInterfaceNames }] :
                \A i, j \in 1..n : i # j => items[i].key # items[j].key } :
            n \in 0..MaxIfaces }

ValidatorClassInputs ==
    {"None", "NetboxBaseInterfaceModel", "NetboxWirelessApInterfaceModel"}

\* A map whose first key is part of the names the second key is part of.
overlapping_validation_map ==
    << MapItem(<<"r">>, "NetboxBaseInterfaceModel"),
       MapItem(<<"r", "a", "d", "i", "o">>, "NetboxWirelessApInterfaceModel") >>

ValidationMapInputs ==
    {<<>>, interface_to_validation_class_map, overlapping_validation_map}

InitInterfaceDict ==
    /\ InitNoRun
    /\ fn_pc = "call"
    /\ unvalidated_device = <<>>
    /\ unvalidated_interfaces \in DictInterfaceItems
    /\ validator_class \in ValidatorClassInputs
    /\ interface_validation_map \in ValidationMapInputs
    /\ validate_data_calls = <<>>
    /\ validated_interface_data = <<>>
    /\ error_identifier = <<>>
    /\ ImportDictsIdle
    /\ ApiDictIdle
    /\ ModelIdle
    /\ CustomFieldsIdle

ValidateInterfaceDict ==
    /\ fn_pc = "call"
    /\ \E result \in {validate_interface_dict(unvalidated_interfaces, validator_class,
                                                interface_validation_map)} :
           /\ validate_data_calls' = result.calls
           /\ validated_interface_data' =
                  IF result.raised = "none" THEN result.data ELSE <<>>
           /\ error_identifier' = result.identifier
           /\ raised' = result.raised
           /\ fn_pc' = IF result.raised = "none" THEN "return" ELSE "raised"
    /\ UNCHANGED <<import_dicts_vars, api_dict_vars, interface_data, values,
                   custom_fields_vars, unvalidated_device, unvalidated_interfaces,
                   validator_class, interface_validation_map, run_vars>>

NextInterfaceDict == ValidateInterfaceDict

SpecInterfaceDict == InitInterfaceDict /\ [][NextInterfaceDict]_vars

\* The index of the first item of the map whose key is part of the name,
\* 0 when no key is.
FirstMatch(interface_name) ==
    LET matches == { i \in DOMAIN interface_validation_map :
                        Contains(interface_name, interface_validation_map[i].key) }
    IN  IF matches = {} THEN 0
        ELSE CHOOSE i \in matches : \A j \in matches : i <= j

FnEnded == fn_pc \in {"return", "raised"}

\* C25: every interface validate_interface_dict comes to is validated with
\* the class of the first map entry whose key is part of its name, also when
\* a default class was supplied; with no such entry the default class is
\* used; with no such entry and no default class the call ends with
\* NetboxInterfaceDataValidationError, with no other exception, and returns
\* no data.
C25_SchemaSelection ==
    FnEnded =>
        /\ \A k \in DOMAIN validate_data_calls :
              LET first == FirstMatch(validate_data_calls[k].key)
              IN  /\ first # 0 =>
                        validate_data_calls[k].value = interface_validation_map[first].value
                  /\ (first = 0 /\ validator_class # "None") =>
                        validate_data_calls[k].value = validator_class
                  /\ (first = 0 /\ validator_class = "None") =>
                        /\ raised = "NetboxInterfaceDataValidationError"
                        /\ validated_interface_data = <<>>
        /\ (validator_class = "None" /\ interface_validation_map = <<>>) =>
              /\ raised = "NetboxInterfaceDataValidationError"
              /\ validate_data_calls = <<>>
        /\ raised = "none" =>
              Len(validated_interface_data) = Len(unvalidated_interfaces)

\* The part of C25 that holds: the class of the first matching entry is used
\* before the default class.
C25_FirstMatchBeforeDefault ==
    FnEnded =>
        \A k \in DOMAIN validate_data_calls :
            LET first == FirstMatch(validate_data_calls[k].key)
            IN  /\ first # 0 =>
                      validate_data_calls[k].value = interface_validation_map[first].value
                /\ (first = 0 /\ validator_class # "None") =>
                      validate_data_calls[k].value = validator_class

\* ------------------------------------------------------------------------
\* generate_custom_fields called on its own.  A generator is the name of an
\* attribute of the Netbox client, or "None".
\* ------------------------------------------------------------------------
\* The attributes of a Netbox object the generators studied name: the method
\* get_device_id and the pynetbox handle "api", which is not callable.
NetboxMethods == {"get_device_id"}

NetboxAttributes == NetboxMethods \cup {"api"}

FnResult(value, exc) == [value |-> value, raised |-> exc]

\* Netbox.get_device_id: the id of the device with that name, None when
\* NetBox has no such device; a request NetBox cannot be reached for or
\* rejects raises out of pynetbox.
get_device_id_MutEchoName(devices, reply, device_name) ==
    CASE reply = "conn"     -> FnResult(NoText, "RequestsConnectionError")
      [] reply = "rejected" -> FnResult(NoText, "NetboxRequestError")
      [] OTHER ->
            IF device_name.s \in DOMAIN devices
            THEN FnResult(Number(devices[device_name.s]), "none")
            ELSE FnResult(device_name, "none")

get_device_id(devices, reply, device_name) ==
    CASE reply = "conn"     -> FnResult(NoText, "RequestsConnectionError")
      [] reply = "rejected" -> FnResult(NoText, "NetboxRequestError")
      [] OTHER ->
            IF device_name.s \in DOMAIN devices
            THEN FnResult(Number(devices[device_name.s]), "none")
            ELSE FnResult(NoText, "none")

\* The value one map entry gives its custom field: hasattr(netbox, None) is
\* a TypeError; a callable attribute is called with the field's value; with
\* any other generator the value of the record is taken as it is.
\* get_device_id is the one method the maps studied name.
FieldValue(field_generator, field_value, devices, reply) ==
    IF field_generator = "None" THEN FnResult(NoText, "TypeError")
    ELSE IF field_generator \in NetboxAttributes /\ field_generator \in NetboxMethods
    THEN get_device_id(devices, reply, field_value)
    ELSE FnResult(field_value, "none")

\* What generate_custom_fields has done so far: the custom fields, what is
\* left of dict_data and the exception raised.
CustomFieldsResult(fields, data, exc) ==
    [custom_fields |-> fields, dict_data |-> data, raised |-> exc]

\* "for field_name, field_generator in custom_field_map.items()": a field
\* with no value or an empty value in dict_data is left alone; a field with
\* a value gets its custom field and is popped from dict_data.
RECURSIVE CustomFieldsLoop(_, _, _, _, _)
CustomFieldsLoop(items, data, fields, devices, reply) ==
    IF items = <<>> THEN CustomFieldsResult(fields, data, "none")
    ELSE LET field_name      == Head(items).key
             field_generator == Head(items).value
             field_value     == Get(data, field_name)
         IN  IF ~Truthy(field_value)
             THEN CustomFieldsLoop(Tail(items), data, fields, devices, reply)
             ELSE LET generated == FieldValue(field_generator, field_value, devices, reply)
                  IN  IF generated.raised # "none"
                      THEN CustomFieldsResult(fields, data, generated.raised)
                      ELSE CustomFieldsLoop(Tail(items), DictPop(data, field_name),
                                DictUpdate(fields, field_name, generated.value),
                                devices, reply)

generate_custom_fields(data, field_map, devices, reply) ==
    CustomFieldsLoop(field_map, data, <<>>, devices, reply)

\* access_point: the two maps.
device_custom_field_map ==
    << MapItem("wlc_primary_association", "get_device_id"),
       MapItem("wlc_secondary_association", "get_device_id"),
       MapItem("wlc_tertiary_association", "get_device_id") >>

interface_custom_field_map == << MapItem("wlc_rf_channel", "None") >>

\* Maps of other callers: a generator that is no attribute of the client,
\* and one that is an attribute but cannot be called.
CustomFieldMapInputs ==
    { <<>>, device_custom_field_map, interface_custom_field_map,
      << MapItem("wlc_primary_association", "get_wlc_id") >>,
      << MapItem("wlc_primary_association", "api"),
         MapItem("wlc_rf_channel", "None") >> }

Wlc1 == <<"w", "l", "c", "1">>

Wlc2 == <<"w", "l", "c", "2">>

Wlc1Id == 7

\* NetBox holds the controller wlc1 or no controller at all.
NetboxDevicesInputs == { <<>>, (Wlc1 :> Wlc1Id) }

\* A record: its name, and per mapped field no column, an empty column or a
\* column with a value.
CustomFieldsDictInputs ==
    { ("name" :> Text(Chars("ap1"))) @@ p @@ s @@ c :
        p \in Optional("wlc_primary_association", {Text(<<>>), Text(Wlc1), Text(Wlc2)}),
        s \in Optional("wlc_secondary_association", {Text(Wlc1), Text(Wlc2)}),
        c \in Optional("wlc_rf_channel", {Text(<<>>), Text(<<"3", "6">>)}) }

InitCustomFields ==
    /\ InitNoRun
    /\ fn_pc = "call"
    /\ dict_data \in CustomFieldsDictInputs
    /\ custom_field_map \in CustomFieldMapInputs
    /\ netbox_devices \in NetboxDevicesInputs
    /\ netbox_reply \in {"ok", "conn", "rejected"}
    /\ dict_data_passed = dict_data
    /\ custom_fields = <<>>
    /\ ModelIdle
    /\ ImportDictsIdle
    /\ ApiDictIdle
    /\ ValidateIdle

\* generate_custom_fields(dict_data, custom_field_map): dict_data is changed
\* in place, also when the call ends with an exception.
CallGenerateCustomFields ==
    /\ fn_pc = "call"
    /\ \E result \in {generate_custom_fields(dict_data, custom_field_map,
                                               netbox_devices, netbox_reply)} :
           /\ dict_data' = result.dict_data
           /\ custom_fields' = IF result.raised = "none" THEN result.custom_fields ELSE <<>>
           /\ raised' = result.raised
           /\ fn_pc' = IF result.raised = "none" THEN "return" ELSE "raised"
    /\ UNCHANGED <<dict_data_passed, custom_field_map, netbox_devices, netbox_reply,
                   interface_data, values, import_dicts_vars, api_dict_vars, validate_vars, run_vars>>

NextCustomFields == CallGenerateCustomFields

SpecCustomFields == InitCustomFields /\ [][NextCustomFields]_vars

\* The entries of the map whose field the record passed holds a non-empty
\* value for.
FilledEntries ==
    { i \in DOMAIN custom_field_map :
        Truthy(Get(dict_data_passed, custom_field_map[i].key)) }

PassedValue(i) == dict_data_passed[custom_field_map[i].key]

\* C27: for a map entry whose generator is None and whose field holds a
\* non-empty value in the record, generate_custom_fields returns and the
\* custom fields hold the field with the value of the record.
C27_NoneGeneratorPassesThrough ==
    FnEnded =>
        \A i \in FilledEntries :
            custom_field_map[i].value = "None" =>
                /\ fn_pc = "return"
                /\ custom_field_map[i].key \in DOMAIN custom_fields
                /\ custom_fields[custom_field_map[i].key] = PassedValue(i)

\* An entry resolved with get_device_id whose value names no device of
\* NetBox, in a call that returned.
LookupFoundNothing(i) ==
    /\ fn_pc = "return"
    /\ i \in FilledEntries
    /\ custom_field_map[i].value = "get_device_id"
    /\ PassedValue(i).s \notin DOMAIN netbox_devices

\* C28 as claimed: a field whose lookup finds nothing keeps the value of the
\* record, in the custom fields or in the record itself.
C28_UnfoundKeepsOriginal ==
    \A i \in DOMAIN custom_field_map :
        LookupFoundNothing(i) =>
            LET field_name == custom_field_map[i].key
            IN  \/ /\ field_name \in DOMAIN custom_fields
                   /\ custom_fields[field_name] = PassedValue(i)
                \/ /\ field_name \in DOMAIN dict_data
                   /\ dict_data[field_name] = PassedValue(i)

\* C28: a field whose lookup finds nothing is None in the custom fields and
\* is taken out of the record; the value of the record is kept only by a
\* generator that is no callable attribute of the client.
C28_UnfoundIsNone ==
    \A i \in DOMAIN custom_field_map :
        LET field_name == custom_field_map[i].key
        IN  /\ LookupFoundNothing(i) =>
                  /\ field_name \in DOMAIN custom_fields
                  /\ custom_fields[field_name] = NoText
                  /\ field_name \notin DOMAIN dict_data
            /\ (fn_pc = "return" /\ i \in FilledEntries
                    /\ custom_field_map[i].value \notin NetboxMethods \cup {"None"}) =>
                  /\ field_name \in DOMAIN custom_fields
                  /\ custom_fields[field_name] = PassedValue(i)
                  /\ field_name \notin DOMAIN dict_data

C28_Witness ==
    /\ fn_pc = "return"
    /\ custom_field_map = device_custom_field_map
    /\ netbox_devices = (Wlc1 :> Wlc1Id)
    /\ Get(dict_data_passed, "wlc_primary_association") = Text(Wlc2)
    /\ Get(dict_data_passed, "wlc_secondary_association") = Text(Wlc1)
    /\ custom_fields = ("wlc_primary_association" :> NoText)
                            @@ ("wlc_secondary_association" :> Number(Wlc1Id))
    /\ DOMAIN dict_data = {"name"}

\* ------------------------------------------------------------------------
\* The tables and the order of the validators
\* ------------------------------------------------------------------------
\* The values dict holds band 2.4 or band 5.
KnownBand == Get(values, "band") \in {Band24, Band5}

\* C31: set_rf_channel, reached by an interface of band 2.4 or band 5 whose
\* channel number and channel width were accepted by validate_channel and
\* validate_channel_width, raises nothing and produces rf_channel: the
\* channel it resolves has a center frequency.
C31_EncodingTotal ==
    [][ (fn_pc = "set_rf_channel" /\ KnownBand) =>
            /\ raised' = "none"
            /\ "rf_channel" \in DOMAIN values'
            /\ values'["netbox_channel_number"].i \in DOMAIN channel_center_frequencies
      ]_vars

\* The lowest channel of a set of channels.
Lowest(channels) == CHOOSE c \in channels : \A d \in channels : c <= d

\* The tuples of a width that translate to the channel.
TuplesOf(width, primary) ==
    { tuple \in BondingTuples(width) : tuple.translated = primary }

\* C32: for every width of the bonding map and every tuple of it,
\* netbox_channel_to_cisco_wlc_translation maps the channel the tuple
\* translates to onto the lowest channel of the tuple, and an interface of
\* band 5 that went through the validators with such a width carries that
\* lowest channel as wlc_rf_channel; a netbox channel that is no key of the
\* table is wlc_rf_channel itself.
C32_ControllerChannelIsLowestMember ==
    /\ \A width \in DOMAIN netbox_channel_width_translation :
          \A tuple \in BondingTuples(width) :
              /\ tuple.translated \in DOMAIN netbox_channel_to_cisco_wlc_translation
              /\ netbox_channel_to_cisco_wlc_translation[tuple.translated] =
                    Lowest(tuple.channels)
    /\ (fn_pc = "return" /\ Get(values, "band") = Band5) =>
          LET width   == values["rf_channel_width"].i
              primary == values["netbox_channel_number"].i
              wlc     == values["custom_fields"]["wlc_rf_channel"]
          IN  /\ width \in DOMAIN netbox_channel_width_translation =>
                    \A tuple \in TuplesOf(width, primary) :
                        wlc = Text(NatToStr(Lowest(tuple.channels)))
              /\ primary \notin DOMAIN netbox_channel_to_cisco_wlc_translation =>
                    wlc = Text(NatToStr(primary))

\* Band 5, channel 48 at width 80 went through the validators: the netbox
\* channel is 42 and the controller channel 36.
C32_Witness ==
    /\ fn_pc = "return"
    /\ Band5Input(48, 80)
    /\ values["netbox_channel_number"] = Number(42)
    /\ values["custom_fields"]["wlc_rf_channel"] = Text(<<"3", "6">>)

\* The channels validate_channel accepts for band 5.
Allowed5Input ==
    /\ Get(interface_data, "band") = Band5
    /\ IsNumeric(Get(interface_data, "channel_number"))
    /\ ToInt(Get(interface_data, "channel_number")) \in allowed_channel_numbers_5ghz

\* C33 (as claimed): an interface of band 5 with an allowed channel whose
\* width was resolved to 20, asked for or by default, leaves the validators
\* with the channel it asked for as netbox channel and as wlc_rf_channel.
C33_Width20MapsToItself ==
    (fn_pc = "return" /\ Allowed5Input /\ values["rf_channel_width"] = Number(20)) =>
        LET requested == ToInt(Get(interface_data, "channel_number"))
        IN  /\ values["netbox_channel_number"] = Number(requested)
            /\ values["custom_fields"]["wlc_rf_channel"] = Text(NatToStr(requested))

\* What the validators have put into the values so far.
WidthResolved == "rf_channel_width" \in DOMAIN values

PrimaryResolved == "netbox_channel_number" \in DOMAIN values

ControllerChannelDerived == "wlc_rf_channel" \in DOMAIN Get(values, "custom_fields")

\* C34: in the validation of a radio interface the values hold a netbox
\* channel only when they hold the resolved width, and hold rf_channel or
\* the wlc_rf_channel custom field only when they hold the netbox channel;
\* the validators run in the order validate_channel, validate_channel_width,
\* set_rf_channel, set_custom_field_rf_channel, and no validator runs once
\* one has raised.
C34_ValidatorOrder ==
    [][ /\ raised = "none"
        /\ fn_pc' \in
              CASE fn_pc = "validate_channel"       -> {"validate_channel_width", "raised"}
                [] fn_pc = "validate_channel_width" -> {"set_rf_channel", "raised"}
                [] fn_pc = "set_rf_channel"         -> {"set_custom_field_rf_channel", "raised"}
                [] fn_pc = "set_custom_field_rf_channel" -> {"return", "raised"}
                [] OTHER                            -> {}
        /\ (fn_pc' = "raised") = (raised' # "none")
        /\ PrimaryResolved' => (WidthResolved' /\ fn_pc # "validate_channel_width")
        /\ HasRfChannel' => PrimaryResolved'
        /\ ControllerChannelDerived' => (PrimaryResolved' /\ HasRfChannel')
        /\ fn_pc' = "raised" =>
              /\ WidthResolved' = WidthResolved
              /\ PrimaryResolved' = PrimaryResolved
              /\ HasRfChannel' = HasRfChannel
              /\ ControllerChannelDerived' = ControllerChannelDerived
      ]_vars

\* set_rf_channel has raised for band 5, channel 165 at width 40: the width
\* is resolved, no netbox channel, no rf_channel and no controller channel.
C34_Witness ==
    /\ fn_pc = "raised"
    /\ Band5Input(165, 40)
    /\ WidthResolved
    /\ ~PrimaryResolved
    /\ ~HasRfChannel
    /\ ~ControllerChannelDerived

\* ------------------------------------------------------------------------
\* Properties of the interface update and of the success entry
\* ------------------------------------------------------------------------
\* C35: every payload of a batched interface update carries an id that is
\* not None and is the identifier the lookup of that interface returned, and
\* no update is issued after a lookup that found no interface.
C35_UpdatePayloadsCarryLookedUpId ==
    \A w \in Workers :
        \A i \in CallIndexes(w) :
            calls[w][i].op = "update_interfaces" =>
                \A k \in DOMAIN calls[w][i].payload :
                    LET lookup == calls[w][LookupIndex(w, k)]
                    IN  /\ lookup.res = "found"
                        /\ lookup.iface = calls[w][i].payload[k]["name"].s
                        /\ calls[w][i].payload[k]["id"] # NoneV
                        /\ calls[w][i].payload[k]["id"] = IntV(lookup.id)

\* The batched interface update of worker w ended with this result.
UpdateInterfacesResult(w, res) ==
    /\ wpc[w] = "done"
    /\ Len(calls[w]) > 0
    /\ calls[w][Len(calls[w])].op = "update_interfaces"
    /\ calls[w][Len(calls[w])].res = res

\* C36: a record whose batched interface update raised a TypeError ends as
\* a record whose update was rejected by NetBox does: outcome
\* FailedInterface and the one error entry "imported successfully but
\* interfaces were not configured" naming the device.
C36_TypeErrorAsRejected ==
    \A w \in Workers :
        (UpdateInterfacesResult(w, "type") \/ UpdateInterfacesResult(w, "rejected")) =>
            /\ outcome[w] = "FailedInterface"
            /\ emitted[w] =
                  <<LogRecord(w, "ERROR", "interfaces_not_configured", csv[w].name)>>

C36_Witness ==
    \E w \in Workers :
        /\ UpdateInterfacesResult(w, "type")
        /\ csv[w].nif > 0
        /\ outcome[w] = "FailedInterface"

\* The record of worker w has the success entry / an error entry among its
\* log entries.
SuccessEntry(w) ==
    \E k \in DOMAIN emitted[w] : emitted[w][k].msg = "success"

ErrorEntry(w) ==
    \E k \in DOMAIN emitted[w] : emitted[w][k].level = "ERROR"

\* The interface lookups of worker w were made for every interface of the
\* row and none raised.
InterfaceLookupsCompleted(w) ==
    /\ CountCalls(w, "lookup_interface") = csv[w].nif
    /\ \A i \in CallIndexes(w) :
          calls[w][i].op = "lookup_interface" => calls[w][i].res \in {"found", "absent"}

\* C37: a finished record has the entry "Successfully imported device"
\* exactly when its device create or update call, the lookup of the id of
\* each of its interfaces and its batched interface update all returned;
\* the entry is emitted once, never by a skipped record and never next to
\* an error entry.
C37_SuccessEntryIffAllStepsCompleted ==
    \A w \in Workers :
        /\ wpc[w] # "done" => ~SuccessEntry(w)
        /\ wpc[w] = "done" =>
              (SuccessEntry(w) <=>
                  /\ DeviceStepOk(w)
                  /\ InterfaceLookupsCompleted(w)
                  /\ UpdateInterfacesResult(w, "ok"))
        /\ SuccessEntry(w) =>
              /\ outcome[w] \in {"Created", "Updated"}
              /\ ~ErrorEntry(w)
              /\ emitted[w] = <<LogRecord(w, "INFO", "success", csv[w].name)>>
        /\ outcome[w] = "Skipped" => ~SuccessEntry(w)

C37_Witness ==
    \E w \in Workers :
        /\ SuccessEntry(w)
        /\ csv[w].nif = MaxIfaces
        /\ outcome[w] = "Created"
        /\ CountCalls(w, "lookup_interface") = MaxIfaces

\* The create_device calls issued for a device name, over all workers.
CreateCalls(name) ==
    UNION { { <<w, i>> : i \in { j \in CallIndexes(w) :
                                    /\ calls[w][j].op = "create_device"
                                    /\ calls[w][j].name = name } } :
            w \in Workers }

\* C38: over all workers of a run at most one create_device call is issued
\* for a device name.
C38_OneCreatePerName ==
    \A name \in Names : Cardinality(CreateCalls(name)) <= 1

\* ------------------------------------------------------------------------
\* The log listener next to one record's worker and the end of the main
\* script, in a run where handling a record may raise.
\* ------------------------------------------------------------------------
InitListener ==
    /\ csv \in [1..1 -> RowSet]
    /\ InitRemote
    /\ main_pc = "join"
    /\ vault_result = "ok"
    /\ worker_process_list = <<1>>
    /\ join_index = 0
    /\ wpc = [w \in Workers |-> IF w = 1 THEN "enrich" ELSE "idle"]
    /\ InitObjects
    /\ handlers_may_raise = TRUE

NextListener ==
    \/ NextRecord
    \/ JoinWorker
    \/ PutMarker
    \/ JoinListener
    \/ RootLoggingProcess

SpecListener == InitListener /\ [][NextListener]_vars

\* The entries of the record's worker the root handler would write out.
RenderableEmitted == Len(SelectSeq(emitted[RecordWorker], Rendered))

\* C39: the listener leaves its loop only on the marker; a turn in which
\* handling the entry raises reports the problem, takes the entry from the
\* queue and leaves the listener running; when the listener has stopped the
\* queue is empty and every entry that was to be written was written or
\* reported.
C39_ListenerDrainsAfterFailure ==
    /\ [][ /\ (listener_pc = "running" /\ listener_pc' = "stopped") =>
                (queue # <<>> /\ Head(queue) = Marker)
           /\ listener_problems' # listener_problems =>
                /\ listener_problems' = listener_problems + 1
                /\ listener_pc' = "running"
                /\ queue' = Tail(queue)
                /\ rendered' = rendered
         ]_vars
    /\ [](listener_pc = "stopped" =>
            /\ queue = <<>>
            /\ \A w \in Workers : wpc[w] \in {"idle", "done"}
            /\ Len(rendered) <= RenderableEmitted
            /\ Len(rendered) + listener_problems >= RenderableEmitted)

\* Handling the first of the two entries of a record raised: the listener
\* reported the problem, took the second entry, which its handler does not
\* write out, and stopped on the marker.
C39_Witness ==
    /\ listener_pc = "stopped"
    /\ listener_problems = 1
    /\ Len(emitted[RecordWorker]) = 2
    /\ RenderableEmitted = 1
    /\ rendered = <<>>
    /\ queue = <<>>

\* C40: in the interface dict returned for a row, the "name" value of every
\* entry equals the key (the interface prefix) under which the entry is
\* stored, also for a row that has a column <prefix>_name.
C40_NameEqualsKey ==
    fn_pc = "return" =>
        \A p \in DOMAIN interface_dict : interface_dict[p][NameKey] = Text(p)

\* A returned entry whose "name" differs from its key: the row has a filled
\* column <prefix>_name.
C40_NameDiffersFromKey ==
    /\ fn_pc = "return"
    /\ \E p \in DOMAIN interface_dict :
          /\ \E h \in FilledColumnsOf(p) : re_match(h)[2] = NameKey
          /\ interface_dict[p][NameKey] # Text(p)

====
